---- MODULE Spec2Model ----
(***************************************************************************)
(* A model of the visual-script graph compiler of                          *)
(* src/src/editor/visual_script_plugins.cpp: the Graph container (nodes,   *)
(* links, variables, the next-id counter), its persisted form              *)
(* (Graph::serialize / Graph::deserialize), the editor operations that     *)
(* change it, and the per-node code generation started by Graph::generate. *)
(*                                                                         *)
(* A stream (OutputMemoryStream / InputMemoryStream) is a sequence of      *)
(* fields: one element per u32/float/enum written, and one element per     *)
(* character of a string followed by its 0 terminator.  Node ids, link     *)
(* endpoints and counters are naturals; every value the model reaches is   *)
(* far below 2^31, so u32 arithmetic never wraps inside the bounds.        *)
(***************************************************************************)
EXTENDS Integers, Sequences, FiniteSets, TLC

VARIABLES
    m_nodes,        \* Graph::m_nodes: sequence of node records
    m_links,        \* Graph::m_links: sequence of [from, to]
    m_variables,    \* Graph::m_variables: sequence of [name, type]
    m_node_counter, \* Graph::m_node_counter
    saved,          \* the stream last written by VisualScriptEditorWindow::serialize
    last_op,        \* history: the operation that produced this state
    issued,         \* history: the ids Graph::addNode handed to the editor so far
    out,            \* the function bodies the last Graph::generate wrote
    gen_status,     \* "none", "returned" or "diverged": how the last generate ended
    visited,        \* history: ids of the nodes whose generate ran in the last compile
    cleared,        \* history: ids whose message the last compile's clearError erased
    module,         \* the buffer the last Graph::generate filled
    edits,          \* history: the number of link edits made on the loaded graph
    leb             \* a call of writeLEB128: its argument, val, the bytes written, end

vars == <<m_nodes, m_links, m_variables, m_node_counter, saved, last_op, issued,
          out, gen_status, visited, cleared, module, edits, leb>>

graph_vars == <<m_nodes, m_links, m_variables, m_node_counter>>
gen_vars == <<out, gen_status, visited, cleared, module, edits, leb>>

(***************************************************************************)
(* Bounds of the model.                                                    *)
(***************************************************************************)
MaxNodes == 2
MaxLinks == 1
MaxVars == 1
MaxIds == 2

(***************************************************************************)
(* Program constants.                                                      *)
(***************************************************************************)
MAGIC == 1598838355
VERSION == 0
NodeIdMask == 32767
PinShift == 65536

\* Node::Type, in declaration order: the enum value of a name is its index - 1.
NodeTypeNames ==
    << "ADD", "SEQUENCE", "SELF", "SET_YAW", "CONST", "MOUSE_MOVE", "UPDATE",
       "GET_VARIABLE", "SET_VARIABLE", "SET_PROPERTY", "MUL", "CALL", "VEC3",
       "YAW_TO_DIR", "START", "IF", "EQ", "NEQ", "GT", "LT", "GTE", "LTE",
       "KEY_INPUT", "GET_PROPERTY", "SWITCH" >>

NodeTypes == { NodeTypeNames[i] : i \in DOMAIN NodeTypeNames }

TypeCode(type) == (CHOOSE i \in DOMAIN NodeTypeNames : NodeTypeNames[i] = type) - 1

TypeOfCode(code) == NodeTypeNames[code + 1]

\* ScriptValueType, in the order the variable editor's combo lists it.
ValueTypeNames == << "U32", "I32", "FLOAT", "ENTITY" >>

ValueTypes == { ValueTypeNames[i] : i \in DOMAIN ValueTypeNames }

ValueTypeCode(type) == (CHOOSE i \in DOMAIN ValueTypeNames : ValueTypeNames[i] = type) - 1

ValueTypeOfCode(code) == ValueTypeNames[code + 1]

CompareTypes == {"EQ", "NEQ", "LT", "GT", "LTE", "GTE"}
EntryTypes == {"UPDATE", "MOUSE_MOVE", "KEY_INPUT", "START"}
VariableNodeTypes == {"GET_VARIABLE", "SET_VARIABLE"}
PropertyNodeTypes == {"GET_PROPERTY", "SET_PROPERTY"}

(***************************************************************************)
(* Helpers on sequences.                                                   *)
(***************************************************************************)
RemoveAt(s, i) == SubSeq(s, 1, i - 1) \o SubSeq(s, i + 1, Len(s))

RECURSIVE Flatten(_)
Flatten(ss) == IF ss = <<>> THEN <<>> ELSE Head(ss) \o Flatten(Tail(ss))

(***************************************************************************)
(* Pins and links.  A pin id is m_id | (pin << 16); a link stores the pin  *)
(* id of its output end in `from` and of its input end in `to`.  x & 0x7fff *)
(* is x % (NodeIdMask + 1), and x >> 16 is x \div PinShift.                 *)
(***************************************************************************)
PinId(id, pin) == id + pin * PinShift

getFromNode(l) == l.from % (NodeIdMask + 1)
getToNode(l) == l.to % (NodeIdMask + 1)
getFromPin(l) == (l.from \div PinShift) % (NodeIdMask + 1)

(***************************************************************************)
(* The graph as a value, for the operators that take and return one.       *)
(***************************************************************************)
MkGraph(nodes, links, variables, counter) ==
    [m_nodes |-> nodes, m_links |-> links, m_variables |-> variables,
     m_node_counter |-> counter]

TheGraph == MkGraph(m_nodes, m_links, m_variables, m_node_counter)

EmptyGraph == MkGraph(<<>>, <<>>, <<>>, 0)

\* The payload a node's constructor leaves: ConstNode::m_value = 0,
\* SwitchNode::m_is_on = true, m_var = 0, no component bound.
DefaultData(type) == IF type = "SWITCH" THEN 1 ELSE 0

\* Graph::addNode: n->m_id = ++m_node_counter; m_nodes.push(n).
addNode(g, type, data) ==
    LET id == g.m_node_counter + 1
        n == [type |-> type, m_id |-> id, m_pos |-> 0, data |-> data, m_error |-> ""]
    IN  [g EXCEPT !.m_node_counter = id, !.m_nodes = Append(@, n)]

\* Graph::createNode: the default-constructed node of the type.
createNode(g, type) == addNode(g, type, DefaultData(type))

\* Graph::getNode: the first node with the id, or null (0 here: no index).
getNode(g, id) ==
    LET hits == { i \in DOMAIN g.m_nodes : g.m_nodes[i].m_id = id }
    IN  IF hits = {} THEN 0 ELSE CHOOSE i \in hits : \A j \in hits : i <= j

\* Graph::clear: the lists are emptied, the counter is left alone.
clear(g) == [g EXCEPT !.m_nodes = <<>>, !.m_links = <<>>, !.m_variables = <<>>]

(***************************************************************************)
(* Graph::removeNode(node): the links are scanned from the last to the     *)
(* first and erased when either end masks to the node's id, then the node  *)
(* is erased (order of the other nodes kept).                              *)
(***************************************************************************)
\* The mutant of LinkTouches: only the output end is compared.
LinkTouches_FromOnly(l, node_id) == (l.from % (NodeIdMask + 1)) = node_id

\* The erase condition of removeNode's loop.
LinkTouches(l, node_id) ==
    (l.from % (NodeIdMask + 1)) = node_id \/ (l.to % (NodeIdMask + 1)) = node_id

RECURSIVE eraseLinks(_, _, _)
eraseLinks(links, i, node_id) ==
    IF i < 1 THEN links
    ELSE IF LinkTouches(links[i], node_id)
         THEN eraseLinks(RemoveAt(links, i), i - 1, node_id)
         ELSE eraseLinks(links, i - 1, node_id)

removeNode(g, node) ==
    LET node_id == g.m_nodes[node].m_id
    IN  [g EXCEPT !.m_links = eraseLinks(@, Len(@), node_id),
                  !.m_nodes = RemoveAt(@, node)]

(***************************************************************************)
(* Streams.  writeString writes the characters and a 0 terminator;         *)
(* readString reads up to the terminator.                                  *)
(***************************************************************************)
writeString(str) == str \o <<0>>

RECURSIVE readString(_, _)
readString(blob, p) ==
    IF blob[p] = 0 THEN [str |-> <<>>, next |-> p + 1]
    ELSE LET r == readString(blob, p + 1)
         IN  [str |-> <<blob[p]>> \o r.str, next |-> r.next]

\* A reflected (component, property) pair is one number; the names written
\* for it are one character each, resolved back by the reflection registry.
PropName(d) == << 1 + (d % 2) >>
CmpName(d) == << 1 + (d \div 2) >>
Resolve(prop, cmp) == (cmp[1] - 1) * 2 + (prop[1] - 1)

\* Node::serialize of each node type: the payload only.
serializeNode(n) ==
    CASE n.type = "CONST" -> << n.data >>
      [] n.type = "SWITCH" -> << n.data >>
      [] n.type \in VariableNodeTypes -> << n.data >>
      [] n.type = "GET_PROPERTY" -> writeString(PropName(n.data)) \o writeString(CmpName(n.data))
      [] n.type = "SET_PROPERTY" ->
            writeString(PropName(n.data)) \o writeString(<<>>) \o writeString(CmpName(n.data))
      [] n.type = "CALL" -> CmpName(n.data) \o writeString(PropName(n.data))
      [] OTHER -> << >>

\* Node::deserialize of each node type, reading at p: the payload and the
\* position after it.
deserializeNode(type, blob, p) ==
    CASE type = "CONST" -> [data |-> blob[p], next |-> p + 1]
      [] type = "SWITCH" -> [data |-> blob[p], next |-> p + 1]
      [] type \in VariableNodeTypes -> [data |-> blob[p], next |-> p + 1]
      [] type = "GET_PROPERTY" ->
            LET prop == readString(blob, p)
                cmp == readString(blob, prop.next)
            IN  [data |-> Resolve(prop.str, cmp.str), next |-> cmp.next]
      [] type = "SET_PROPERTY" ->
            LET prop == readString(blob, p)
                value == readString(blob, prop.next)
                cmp == readString(blob, value.next)
            IN  [data |-> Resolve(prop.str, cmp.str), next |-> cmp.next]
      [] type = "CALL" ->
            LET func == readString(blob, p + 1)
            IN  [data |-> Resolve(func.str, << blob[p] >>), next |-> func.next]
      [] OTHER -> [data |-> DefaultData(type), next |-> p]

serializeVariable(var) == writeString(var.name) \o << ValueTypeCode(var.type) >>

serializeLink(l) == << l.from, l.to >>

serializeNodeEntry(n) == << TypeCode(n.type), n.m_id, n.m_pos >> \o serializeNode(n)

\* Graph::serialize.
serialize(g) ==
    << MAGIC, VERSION, g.m_node_counter >>
    \o << Len(g.m_variables) >>
    \o Flatten([i \in DOMAIN g.m_variables |-> serializeVariable(g.m_variables[i])])
    \o << Len(g.m_links) >>
    \o Flatten([i \in DOMAIN g.m_links |-> serializeLink(g.m_links[i])])
    \o << Len(g.m_nodes) >>
    \o Flatten([i \in DOMAIN g.m_nodes |-> serializeNodeEntry(g.m_nodes[i])])

RECURSIVE readVariables(_, _, _, _)
readVariables(blob, p, count, acc) ==
    IF count = 0 THEN [list |-> acc, next |-> p]
    ELSE LET name == readString(blob, p)
             var == [name |-> name.str, type |-> ValueTypeOfCode(blob[name.next])]
         IN  readVariables(blob, name.next + 1, count - 1, Append(acc, var))

RECURSIVE readLinks(_, _, _, _)
readLinks(blob, p, count, acc) ==
    IF count = 0 THEN [list |-> acc, next |-> p]
    ELSE readLinks(blob, p + 2, count - 1,
                   Append(acc, [from |-> blob[p], to |-> blob[p + 1]]))

\* The mutant of readNode: the id createNode assigned is kept.
readNode_KeepNewId(g, blob, p) ==
    LET type == TypeOfCode(blob[p])
        g1 == createNode(g, type)
        k == Len(g1.m_nodes)
        payload == deserializeNode(type, blob, p + 3)
    IN  [g |-> [g1 EXCEPT !.m_nodes[k].m_pos = blob[p + 2],
                          !.m_nodes[k].data = payload.data],
         next |-> payload.next]

\* One turn of deserialize's node loop: createNode(type), then m_id and
\* m_pos are read over the new node's, then the node reads its payload.
readNode(g, blob, p) ==
    LET type == TypeOfCode(blob[p])
        g1 == createNode(g, type)
        k == Len(g1.m_nodes)
        payload == deserializeNode(type, blob, p + 3)
    IN  [g |-> [g1 EXCEPT !.m_nodes[k].m_id = blob[p + 1],
                          !.m_nodes[k].m_pos = blob[p + 2],
                          !.m_nodes[k].data = payload.data],
         next |-> payload.next]

RECURSIVE readNodes(_, _, _, _)
readNodes(g, blob, p, count) ==
    IF count = 0 THEN g
    ELSE LET r == readNode(g, blob, p)
         IN  readNodes(r.g, blob, r.next, count - 1)

\* The mutant of deserialize: the counter is read before the version is
\* looked at.
deserialize_CounterFirst(g, blob) ==
    IF blob[1] # MAGIC THEN [ok |-> FALSE, g |-> g]
    ELSE IF blob[2] # VERSION
         THEN [ok |-> FALSE, g |-> [g EXCEPT !.m_node_counter = blob[3]]]
    ELSE LET g1 == [g EXCEPT !.m_node_counter = blob[3]]
             vs == readVariables(blob, 5, blob[4], g1.m_variables)
             ls == readLinks(blob, vs.next + 1, blob[vs.next], g1.m_links)
             g2 == [g1 EXCEPT !.m_variables = vs.list, !.m_links = ls.list]
         IN  [ok |-> TRUE, g |-> readNodes(g2, blob, ls.next + 1, blob[ls.next])]

\* Graph::deserialize into graph g: [ok, g].
deserialize(g, blob) ==
    IF blob[1] # MAGIC THEN [ok |-> FALSE, g |-> g]
    ELSE IF blob[2] # VERSION THEN [ok |-> FALSE, g |-> g]
    ELSE LET g1 == [g EXCEPT !.m_node_counter = blob[3]]
             vs == readVariables(blob, 5, blob[4], g1.m_variables)
             ls == readLinks(blob, vs.next + 1, blob[vs.next], g1.m_links)
             g2 == [g1 EXCEPT !.m_variables = vs.list, !.m_links = ls.list]
         IN  [ok |-> TRUE, g |-> readNodes(g2, blob, ls.next + 1, blob[ls.next])]

(***************************************************************************)
(* Code generation.  The instruction stream is a sequence of bytes, with   *)
(* a float constant written as one element.                                *)
(***************************************************************************)
WasmOp ==
    ("IF" :> 4) @@ ("ELSE" :> 5) @@
    [END |-> 11, CALL |-> 16, LOCAL_GET |-> 32,
     GLOBAL_GET |-> 35, GLOBAL_SET |-> 36, I32_CONST |-> 65, I64_CONST |-> 66,
     F32_CONST |-> 67, F64_CONST |-> 68,
     I32_EQ |-> 70, I32_NEQ |-> 71, I32_LT_S |-> 72, I32_GT_S |-> 74,
     I32_LE_S |-> 76, I32_GE_S |-> 78,
     F32_EQ |-> 91, F32_NEQ |-> 92, F32_LT |-> 93, F32_GT |-> 94,
     F32_LE |-> 95, F32_GE |-> 96,
     I32_ADD |-> 106, I32_MUL |-> 108, F32_ADD |-> 146, F32_MUL |-> 148]

WASMLumixAPI == [SET_YAW |-> 0, SET_PROPERTY_FLOAT |-> 1, GET_PROPERTY_FLOAT |-> 2]

WASMGlobals == [SELF |-> 0, USER |-> 1]

\* The block type byte written after IF.
BlockTypeVoid == 64

\* The width of writeLEB128's parameter (u64 val).
U64Bits == 64

\* The number of 7-bit groups that hold a u64: nine whole ones and one bit.
U64Groups == (U64Bits + 6) \div 7

\* The value of the top group's only bit positions.
TopGroupSize == 2 ^ (U64Bits - 7 * (U64Groups - 1))

\* A u64 is kept as its 7-bit groups, low group first; the top group holds
\* the bit that is left.  toU64 is the conversion of an integer argument to
\* the u64 parameter (two's complement for a negative one).
RECURSIVE groupsOf(_, _)
groupsOf(v, n) ==
    IF n = 1 THEN << v % TopGroupSize >> ELSE << v % 128 >> \o groupsOf(v \div 128, n - 1)

toU64(v) == groupsOf(v, U64Groups)

\* val >>= 7 on an unsigned value: zeros come in at the top.
shr7(val) == Tail(val) \o << 0 >>

isZero(val) == \A i \in DOMAIN val : val[i] = 0

\* val == -1: the comparison converts -1 to u64, all bits set.
isMinusOne(val) ==
    \A i \in DOMAIN val : val[i] = (IF i = U64Groups THEN TopGroupSize - 1 ELSE 127)

\* The end test of the loop, on the shifted val and the byte just taken.
lebEnd(val, byte) ==
    \/ (isZero(val) /\ byte < 64)
    \/ (isMinusOne(val) /\ byte >= 64)

\* One pass of the do-while loop of writeLEB128 on val: the byte written,
\* the val left, and whether the loop ends.
lebPass(val) ==
    LET byte == val[1]
        rest == shr7(val)
        end == lebEnd(rest, byte)
    IN  [byte |-> IF end THEN byte ELSE byte + 128, val |-> rest, end |-> end]

\* writeLEB128 on a u64: the bytes of all passes.
RECURSIVE writeLEB128u(_)
writeLEB128u(val) ==
    LET p == lebPass(val)
    IN  IF p.end THEN << p.byte >> ELSE << p.byte >> \o writeLEB128u(p.val)

\* The bytes writeLEB128 writes for each argument of one byte, worked out
\* once.
LebTable == [v \in 0 .. 255 |-> writeLEB128u(toU64(v))]

\* writeLEB128 called with an integer argument.
writeLEB128(val) ==
    IF val \in DOMAIN LebTable THEN LebTable[val] ELSE writeLEB128u(toU64(val))

\* reflection::getPropertyHash of the node's (component, property).
PropertyHash(d) == 100 + d

MinOf(S) == CHOOSE i \in S : \A j \in S : i <= j

\* Node::getOutputNode(idx): the first link leaving output pin idx of node k,
\* resolved to [node, idx]: the node (index in m_nodes, 0 for null) and the
\* input pin the link enters.
getOutputNode(g, k, idx) ==
    LET hits == { i \in DOMAIN g.m_links :
                    /\ getFromNode(g.m_links[i]) = g.m_nodes[k].m_id
                    /\ getFromPin(g.m_links[i]) = idx }
    IN  IF hits = {} THEN [node |-> 0, idx |-> 0]
        ELSE LET to == g.m_links[MinOf(hits)].to
             IN  [node |-> getNode(g, to % (NodeIdMask + 1)), idx |-> to \div PinShift]

\* Node::getInputNode(idx): the first link entering input pin idx of node k,
\* resolved to [node, idx]: the node and the output pin the link leaves.
getInputNode(g, k, idx) ==
    LET hits == { i \in DOMAIN g.m_links :
                    g.m_links[i].to = PinId(g.m_nodes[k].m_id, idx) }
    IN  IF hits = {} THEN [node |-> 0, idx |-> 0]
        ELSE LET from == g.m_links[MinOf(hits)].from
             IN  [node |-> getNode(g, from % (NodeIdMask + 1)), idx |-> from \div PinShift]

\* getOutputType(idx) of node k.  `seen` holds the nodes whose query is
\* running: a query that comes back to one of them recurses without end, and
\* the result is "DIVERGED".  A GetVariableNode whose m_var is past the end
\* of m_variables reads outside the array: "GARBAGE" stands for whatever
\* value that read gives.
RECURSIVE getOutputType(_, _, _, _)
getOutputType(g, k, idx, seen) ==
    LET type == g.m_nodes[k].type
    IN  CASE type \in CompareTypes \cup {"ADD", "MUL"} ->
                LET n0 == getInputNode(g, k, 0)
                IN  IF n0.node = 0 THEN "I32"
                    ELSE IF n0.node \in seen \cup {k} THEN "DIVERGED"
                    ELSE getOutputType(g, n0.node, n0.idx, seen \cup {k})
          [] type = "SELF" -> "ENTITY"
          [] type \in {"CONST", "MOUSE_MOVE", "UPDATE", "GET_PROPERTY"} -> "FLOAT"
          [] type = "KEY_INPUT" -> "I32"
          [] type = "GET_VARIABLE" ->
                IF g.m_nodes[k].data + 1 \in DOMAIN g.m_variables
                THEN g.m_variables[g.m_nodes[k].data + 1].type
                ELSE "GARBAGE"
          [] OTHER -> "I32"

\* The mutant of CompareOp: GTE and LTE give each other's float opcode.
CompareOp_SwappedFloat(type, is_float) ==
    IF is_float
    THEN CASE type = "EQ" -> WasmOp.F32_EQ
           [] type = "NEQ" -> WasmOp.F32_NEQ
           [] type = "LT" -> WasmOp.F32_LT
           [] type = "GT" -> WasmOp.F32_GT
           [] type = "GTE" -> WasmOp.F32_LE
           [] type = "LTE" -> WasmOp.F32_GE
    ELSE CASE type = "EQ" -> WasmOp.I32_EQ
           [] type = "NEQ" -> WasmOp.I32_NEQ
           [] type = "LT" -> WasmOp.I32_LT_S
           [] type = "GT" -> WasmOp.I32_GT_S
           [] type = "GTE" -> WasmOp.I32_GE_S
           [] type = "LTE" -> WasmOp.I32_LE_S

\* The two switches of CompareNode<T>::generate.
CompareOp(type, is_float) ==
    IF is_float
    THEN CASE type = "EQ" -> WasmOp.F32_EQ
           [] type = "NEQ" -> WasmOp.F32_NEQ
           [] type = "LT" -> WasmOp.F32_LT
           [] type = "GT" -> WasmOp.F32_GT
           [] type = "GTE" -> WasmOp.F32_GE
           [] type = "LTE" -> WasmOp.F32_LE
    ELSE CASE type = "EQ" -> WasmOp.I32_EQ
           [] type = "NEQ" -> WasmOp.I32_NEQ
           [] type = "LT" -> WasmOp.I32_LT_S
           [] type = "GT" -> WasmOp.I32_GT_S
           [] type = "GTE" -> WasmOp.I32_GE_S
           [] type = "LTE" -> WasmOp.I32_LE_S

\* The opcode AddNode::generate and MulNode::generate choose.
ArithOp(type, is_float) ==
    IF type = "ADD"
    THEN (IF is_float THEN WasmOp.F32_ADD ELSE WasmOp.I32_ADD)
    ELSE (IF is_float THEN WasmOp.F32_MUL ELSE WasmOp.I32_MUL)

\* blob.write of a float: the four bytes of the IEEE single, low byte first,
\* for the values a ConstNode holds here (0 and 1).
F32Bytes(v) == IF v = 0 THEN << 0, 0, 0, 0 >> ELSE << 0, 0, 128, 63 >>

\* blob.write of a u32: four bytes, low byte first.
U32Bytes(x) == [i \in 1 .. 4 |-> (x \div (256 ^ (i - 1))) % 256]

(***************************************************************************)
(* The state a compile threads through the nodes' generate calls: the      *)
(* nodes (for m_error), the stream being written, the ids visited, and     *)
(* whether the recursion came back to a call that is still running (same   *)
(* node, same selector, same const graph: it recurses without end).        *)
(***************************************************************************)
GenState(nodes) == [nodes |-> nodes, blob |-> <<>>, visited |-> {}, diverged |-> FALSE]

Emit(st, bytes) == [st EXCEPT !.blob = @ \o bytes]

\* The mutant of SetError: the node that reports loses its id as well.
SetError_Renumber(st, k, msg) == [st EXCEPT !.nodes[k].m_error = msg, !.nodes[k].m_id = 0]

SetError(st, k, msg) == [st EXCEPT !.nodes[k].m_error = msg]

Diverge(st) == [st EXCEPT !.diverged = TRUE]

RECURSIVE generate(_, _, _, _, _)

\* Node::generateNext: the node on flow output 0, if any.
generateNext(g, k, st, stack) ==
    LET n == getOutputNode(g, k, 0)
    IN  IF n.node = 0 THEN st ELSE generate(g, n.node, n.idx, st, stack)

\* AddNode::generate and MulNode::generate.
generateArith(g, k, st, stack) ==
    LET n0 == getInputNode(g, k, 0)
        n1 == getInputNode(g, k, 1)
    IN  IF n0.node = 0 \/ n1.node = 0 THEN SetError(st, k, "Missing inputs")
        ELSE LET st1 == generate(g, n0.node, n0.idx, st, stack)
                 st2 == generate(g, n1.node, n1.idx, st1, stack)
                 type0 == getOutputType(g, n0.node, n0.idx, {})
             IN  IF st2.diverged \/ type0 = "DIVERGED" THEN Diverge(st2)
                 ELSE Emit(st2, << ArithOp(g.m_nodes[k].type, type0 = "FLOAT") >>)

\* CompareNode<T>::generate.
generateCompare(g, k, st, stack) ==
    LET a == getInputNode(g, k, 0)
        b == getInputNode(g, k, 1)
    IN  IF a.node = 0 \/ b.node = 0 THEN SetError(st, k, "Missing input")
        ELSE LET st1 == generate(g, a.node, a.idx, st, stack)
                 st2 == generate(g, b.node, b.idx, st1, stack)
                 typeA == getOutputType(g, a.node, a.idx, {})
                 typeB == getOutputType(g, b.node, b.idx, {})
             IN  IF st2.diverged \/ typeA = "DIVERGED" \/ typeB = "DIVERGED"
                 THEN Diverge(st2)
                 ELSE IF typeA # typeB THEN SetError(st2, k, "Types do not match")
                 ELSE Emit(st2, << CompareOp(g.m_nodes[k].type, typeA = "FLOAT") >>)

\* The mutant of generateIf: the condition is written before the outputs are
\* looked at.
generateIf_CondFirst(g, k, st, stack) ==
    LET true_branch == getOutputNode(g, k, 0)
        false_branch == getOutputNode(g, k, 1)
        cond == getInputNode(g, k, 1)
    IN  IF cond.node = 0 THEN SetError(st, k, "Missing condition")
        ELSE LET st1 == generate(g, cond.node, cond.idx, st, stack)
                 st2 == Emit(st1, << WasmOp["IF"], BlockTypeVoid >>)
             IN  IF true_branch.node = 0 \/ false_branch.node = 0
                 THEN SetError(st2, k, "Missing outputs")
                 ELSE LET st3 == generate(g, true_branch.node, true_branch.idx, st2, stack)
                          st4 == Emit(st3, << WasmOp["ELSE"] >>)
                          st5 == generate(g, false_branch.node, false_branch.idx, st4,
                                          stack)
                      IN  Emit(st5, << WasmOp.END >>)

\* IfNode::generate.
generateIf(g, k, st, stack) ==
    LET true_branch == getOutputNode(g, k, 0)
        false_branch == getOutputNode(g, k, 1)
        cond == getInputNode(g, k, 1)
    IN  IF true_branch.node = 0 \/ false_branch.node = 0
        THEN SetError(st, k, "Missing outputs")
        ELSE IF cond.node = 0 THEN SetError(st, k, "Missing condition")
        ELSE LET st1 == generate(g, cond.node, cond.idx, st, stack)
                 st2 == Emit(st1, << WasmOp["IF"], BlockTypeVoid >>)
                 st3 == generate(g, true_branch.node, true_branch.idx, st2, stack)
                 st4 == Emit(st3, << WasmOp["ELSE"] >>)
                 st5 == generate(g, false_branch.node, false_branch.idx, st4, stack)
             IN  Emit(st5, << WasmOp.END >>)

\* The output pins SequenceNode::onGUI shows: one more than the highest
\* linked one.
SequencePins(g, k) ==
    LET used == { getFromPin(g.m_links[i]) : i \in { j \in DOMAIN g.m_links :
                      getFromNode(g.m_links[j]) = g.m_nodes[k].m_id } }
    IN  IF used = {} THEN 1 ELSE (CHOOSE p \in used : \A q \in used : q <= p) + 2

\* The mutant of generateSequence: a pin with no node is passed over and the
\* loop goes on to the last pin.
RECURSIVE generateSequence_SkipGaps(_, _, _, _, _)
generateSequence_SkipGaps(g, k, i, st, stack) ==
    LET n == getOutputNode(g, k, i)
    IN  IF i >= SequencePins(g, k) \/ st.diverged THEN st
        ELSE IF n.node = 0 THEN generateSequence_SkipGaps(g, k, i + 1, st, stack)
        ELSE generateSequence_SkipGaps(g, k, i + 1, generate(g, n.node, 0, st, stack),
                                       stack)

\* SequenceNode::generate: output pins 0, 1, ... until one has no node.
RECURSIVE generateSequence(_, _, _, _, _)
generateSequence(g, k, i, st, stack) ==
    LET n == getOutputNode(g, k, i)
    IN  IF n.node = 0 \/ st.diverged THEN st
        ELSE generateSequence(g, k, i + 1, generate(g, n.node, 0, st, stack), stack)

\* SetYawNode::generate.
generateSetYaw(g, k, st, stack) ==
    LET o1 == getInputNode(g, k, 1)
        o2 == getInputNode(g, k, 2)
    IN  IF o1.node = 0 \/ o2.node = 0 THEN SetError(st, k, "Missing inputs")
        ELSE LET st1 == generate(g, o1.node, o1.idx, st, stack)
                 st2 == generate(g, o2.node, o2.idx, st1, stack)
                 st3 == Emit(st2, << WasmOp.CALL >> \o writeLEB128(WASMLumixAPI.SET_YAW))
             IN  generateNext(g, k, st3, stack)

\* The mutant of generateSwitch: m_is_on is not read, output 0 is taken.
generateSwitch_AlwaysOn(g, k, st, stack) ==
    LET n == getOutputNode(g, k, 0)
    IN  IF n.node = 0 THEN st ELSE generate(g, n.node, n.idx, st, stack)

\* SwitchNode::generate.
generateSwitch(g, k, st, stack) ==
    LET n == IF g.m_nodes[k].data # 0 THEN getOutputNode(g, k, 0)
                                     ELSE getOutputNode(g, k, 1)
    IN  IF n.node = 0 THEN st ELSE generate(g, n.node, n.idx, st, stack)

\* The mutant of generateBody: the locals count is not written.
generateBody_NoLocals(g, k, st, stack) ==
    LET o == getOutputNode(g, k, 0)
        st2 == IF o.node = 0 THEN st ELSE generate(g, o.node, o.idx, st, stack)
    IN  Emit(st2, << WasmOp.END >>)

\* The body an entry node writes for selector 0: no locals, the node on flow
\* output 0, END.
generateBody(g, k, st, stack) ==
    LET o == getOutputNode(g, k, 0)
        st1 == Emit(st, << 0 >>)
        st2 == IF o.node = 0 THEN st1 ELSE generate(g, o.node, o.idx, st1, stack)
    IN  Emit(st2, << WasmOp.END >>)

\* KeyInputNode::generate: case 0 has no break and runs on into case 1;
\* any other selector reaches ASSERT(false) and writes nothing.
generateKeyInput(g, k, output_idx, st, stack) ==
    CASE output_idx = 0 ->
            Emit(generateBody(g, k, st, stack), << WasmOp.LOCAL_GET, 0 >>)
      [] output_idx = 1 -> Emit(st, << WasmOp.LOCAL_GET, 0 >>)
      [] OTHER -> st

\* MouseMoveNode::generate: case 0 has no break and runs on into case 1.
generateMouseMove(g, k, output_idx, st, stack) ==
    CASE output_idx = 0 ->
            Emit(generateBody(g, k, st, stack), << WasmOp.LOCAL_GET, 0 >>)
      [] output_idx = 1 -> Emit(st, << WasmOp.LOCAL_GET, 0 >>)
      [] output_idx = 2 -> Emit(st, << WasmOp.LOCAL_GET, 1 >>)
      [] OTHER -> st

\* UpdateNode::generate.
generateUpdate(g, k, pin_idx, st, stack) ==
    IF pin_idx = 0 THEN generateBody(g, k, st, stack)
    ELSE Emit(st, << WasmOp.LOCAL_GET, 0 >>)

\* SetVariableNode::generate.
generateSetVariable(g, k, st, stack) ==
    LET n == getInputNode(g, k, 1)
    IN  IF n.node = 0 THEN SetError(st, k, "Missing input")
        ELSE LET st1 == generate(g, n.node, n.idx, st, stack)
                 st2 == Emit(st1, << WasmOp.GLOBAL_SET >>
                                  \o writeLEB128(g.m_nodes[k].data + WASMGlobals.USER))
             IN  generateNext(g, k, st2, stack)

\* GetPropertyNode::generate.
generateGetProperty(g, k, st, stack) ==
    LET o == getInputNode(g, k, 0)
    IN  IF o.node = 0 THEN SetError(st, k, "Missing entity input")
        ELSE LET st1 == generate(g, o.node, o.idx, st, stack)
             IN  Emit(st1, << WasmOp.I64_CONST >>
                           \o writeLEB128(PropertyHash(g.m_nodes[k].data))
                           \o << WasmOp.CALL >>
                           \o writeLEB128(WASMLumixAPI.GET_PROPERTY_FLOAT))

\* SetPropertyNode::generate; the value text of the node is empty, so a
\* missing value input writes the constant atof("") = 0.
generateSetProperty(g, k, st, stack) ==
    LET o1 == getInputNode(g, k, 1)
        o2 == getInputNode(g, k, 2)
    IN  IF o1.node = 0 THEN SetError(st, k, "Missing entity input")
        ELSE LET st1 == generate(g, o1.node, o1.idx, st, stack)
                 st2 == Emit(st1, << WasmOp.I64_CONST >>
                                  \o writeLEB128(PropertyHash(g.m_nodes[k].data)))
                 st3 == IF o2.node # 0 THEN generate(g, o2.node, o2.idx, st2, stack)
                        ELSE Emit(st2, << WasmOp.F32_CONST >> \o F32Bytes(0))
                 st4 == Emit(st3, << WasmOp.CALL >>
                                  \o writeLEB128(WASMLumixAPI.SET_PROPERTY_FLOAT))
             IN  generateNext(g, k, st4, stack)

\* node->generate(blob, graph, output_idx) of node k, by its type.  `stack`
\* holds the (node, selector) calls that are running.
generate(g, k, output_idx, st, stack) ==
    IF st.diverged THEN st
    ELSE IF << k, output_idx >> \in stack THEN Diverge(st)
    ELSE
      LET type == g.m_nodes[k].type
          st0 == [st EXCEPT !.visited = @ \cup { g.m_nodes[k].m_id }]
          stk == stack \cup { << k, output_idx >> }
      IN  CASE type \in {"ADD", "MUL"} -> generateArith(g, k, st0, stk)
            [] type \in CompareTypes -> generateCompare(g, k, st0, stk)
            [] type = "IF" -> generateIf(g, k, st0, stk)
            [] type = "SEQUENCE" -> generateSequence(g, k, 0, st0, stk)
            [] type = "SELF" ->
                  Emit(st0, << WasmOp.GLOBAL_GET >> \o writeLEB128(WASMGlobals.SELF))
            [] type = "SET_YAW" -> generateSetYaw(g, k, st0, stk)
            [] type = "CONST" ->
                  Emit(st0, << WasmOp.F32_CONST >> \o F32Bytes(g.m_nodes[k].data))
            [] type = "SWITCH" -> generateSwitch(g, k, st0, stk)
            [] type = "KEY_INPUT" -> generateKeyInput(g, k, output_idx, st0, stk)
            [] type = "MOUSE_MOVE" -> generateMouseMove(g, k, output_idx, st0, stk)
            [] type = "START" -> generateBody(g, k, st0, stk)
            [] type = "UPDATE" -> generateUpdate(g, k, output_idx, st0, stk)
            [] type = "SET_VARIABLE" -> generateSetVariable(g, k, st0, stk)
            [] type = "GET_VARIABLE" ->
                  Emit(st0, << WasmOp.GLOBAL_GET >>
                            \o writeLEB128(g.m_nodes[k].data + WASMGlobals.USER))
            [] type = "GET_PROPERTY" -> generateGetProperty(g, k, st0, stk)
            [] type = "SET_PROPERTY" -> generateSetProperty(g, k, st0, stk)
            [] OTHER -> st0

\* The mutant of clearErrors: the messages are left as they are.
clearErrors_Kept(nodes) == nodes

\* The first loop of Graph::generate: node->clearError() for every node.
clearErrors(nodes) == [i \in DOMAIN nodes |-> [nodes[i] EXCEPT !.m_error = ""]]

\* The entry points Graph::generate registers, in its order.
ExportTypes == << "UPDATE", "MOUSE_MOVE", "KEY_INPUT", "START" >>

ExportNames == << <<"update">>, <<"onMouseMove">>, <<"onKeyEvent">>, <<"start">> >>

\* The mutant of addExport: the loop has no break, every node of the type
\* adds an export.
addExport_NoBreak(g, e) ==
    LET hits == { i \in DOMAIN g.m_nodes : g.m_nodes[i].type = ExportTypes[e] }
    IN  [j \in 1 .. Cardinality(hits) |->
            [name |-> ExportNames[e][1],
             node |-> CHOOSE i \in hits : Cardinality({ h \in hits : h < i }) = j - 1]]

\* Graph::addExport: the first node of the type, if there is one.
addExport(g, e) ==
    LET hits == { i \in DOMAIN g.m_nodes : g.m_nodes[i].type = ExportTypes[e] }
    IN  IF hits = {} THEN << >>
        ELSE << [name |-> ExportNames[e][1], node |-> MinOf(hits)] >>

Exports(g) == Flatten([e \in DOMAIN ExportTypes |-> addExport(g, e)])

\* The code section of WASMWriter::write: for each export, func_blob is
\* cleared and its node writes the body with selector 0.
RECURSIVE writeCode(_, _, _, _, _)
writeCode(g, exports, e, st, bodies) ==
    IF e > Len(exports) \/ st.diverged THEN [st |-> st, bodies |-> bodies]
    ELSE LET st1 == generate(g, exports[e].node, 0, [st EXCEPT !.blob = <<>>], {})
         IN  writeCode(g, exports, e + 1, st1,
                       Append(bodies, [name |-> exports[e].name, body |-> st1.blob]))

(***************************************************************************)
(* The module WASMWriter::write lays out around the function bodies.       *)
(***************************************************************************)
WASMSection == [TYPE |-> 1, IMPORT |-> 2, FUNCTION |-> 3, GLOBAL |-> 6, EXPORT |-> 7,
                CODE |-> 10]

WASMExternalType == [FUNCTION |-> 0, TABLE |-> 1, MEMORY |-> 2, GLOBAL |-> 3]

WASMType == [F64 |-> 124, F32 |-> 125, I64 |-> 126, I32 |-> 127, VOID |-> 255]

\* The first word of the module, "\0asm".
WasmMagic == 1836278016

\* The second word of the module.
WasmVersion == 1

\* The byte that opens a function type.
FuncTypeTag == 96

\* ScriptResource::Header, which Graph::generate writes before the module;
\* one element stands for the struct.
ScriptHeader == << -1 >>

\* The names the module uses, as characters.
NameBytes ==
    [update |-> << 117, 112, 100, 97, 116, 101 >>,
     onMouseMove |-> << 111, 110, 77, 111, 117, 115, 101, 77, 111, 118, 101 >>,
     onKeyEvent |-> << 111, 110, 75, 101, 121, 69, 118, 101, 110, 116 >>,
     start |-> << 115, 116, 97, 114, 116 >>,
     self |-> << 115, 101, 108, 102 >>,
     LumixAPI |-> << 76, 117, 109, 105, 120, 65, 80, 73 >>,
     setYaw |-> << 115, 101, 116, 89, 97, 119 >>,
     setPropertyFloat |-> << 115, 101, 116, 80, 114, 111, 112, 101, 114, 116, 121,
                             70, 108, 111, 97, 116 >>,
     getPropertyFloat |-> << 103, 101, 116, 80, 114, 111, 112, 101, 114, 116, 121,
                             70, 108, 111, 97, 116 >>]

\* The argument types of the addExport calls, by export name.
ExportArgs ==
    [update |-> << WASMType.F32 >>, onMouseMove |-> << WASMType.F32, WASMType.F32 >>,
     onKeyEvent |-> << WASMType.I32 >>, start |-> << >>]

\* The three addImport calls of Graph::generate.
Imports ==
    << [module_name |-> NameBytes.LumixAPI, field_name |-> NameBytes.setYaw,
        ret_type |-> WASMType.VOID, args |-> << WASMType.I32, WASMType.F32 >>],
       [module_name |-> NameBytes.LumixAPI, field_name |-> NameBytes.setPropertyFloat,
        ret_type |-> WASMType.VOID,
        args |-> << WASMType.I32, WASMType.I64, WASMType.F32 >>],
       [module_name |-> NameBytes.LumixAPI, field_name |-> NameBytes.getPropertyFloat,
        ret_type |-> WASMType.F32, args |-> << WASMType.I32, WASMType.I64 >>] >>

\* The switch of Graph::generate over var.type: an I32 or FLOAT variable
\* adds a global, any other type reaches ASSERT(false) and adds none.
variableGlobal(var) ==
    CASE var.type = "I32" -> << [type |-> WASMType.I32, export_name |-> var.name] >>
      [] var.type = "FLOAT" -> << [type |-> WASMType.F32, export_name |-> var.name] >>
      [] OTHER -> << >>

\* m_globals after Graph::generate has registered them: "self", then the
\* variables in list order.
Globals(g) ==
    << [type |-> WASMType.I32, export_name |-> NameBytes.self] >>
    \o Flatten([i \in DOMAIN g.m_variables |-> variableGlobal(g.m_variables[i])])

\* WASMWriter::writeString: the length, then the characters.
writeWasmString(value) == writeLEB128(Len(value)) \o value

\* WASMWriter::writeSection: the id, the size of the content, the content.
writeSection(section, tmp) == << section >> \o writeLEB128(Len(tmp)) \o tmp

\* The function types of the imports, as the type section lists them.
importTypes ==
    Flatten([i \in DOMAIN Imports |->
        << FuncTypeTag, Len(Imports[i].args) >> \o Imports[i].args
        \o (IF Imports[i].ret_type = WASMType.VOID THEN << 0 >>
            ELSE << 1, Imports[i].ret_type >>)])

typeSection(exports) ==
    writeLEB128(Len(Imports) + Len(exports))
    \o importTypes
    \o Flatten([e \in DOMAIN exports |->
          << FuncTypeTag, Len(ExportArgs[exports[e].name]) >>
          \o ExportArgs[exports[e].name] \o << 0 >>])

importSection ==
    writeLEB128(Len(Imports))
    \o Flatten([i \in DOMAIN Imports |->
          writeWasmString(Imports[i].module_name) \o writeWasmString(Imports[i].field_name)
          \o << WASMExternalType.FUNCTION >> \o writeLEB128(i - 1)])

\* The mutant of functionSection: the signature index does not count the
\* imports.
functionSection_NoImports(exports) ==
    writeLEB128(Len(exports))
    \o Flatten([e \in DOMAIN exports |-> writeLEB128(e - 1)])

functionSection(exports) ==
    writeLEB128(Len(exports))
    \o Flatten([e \in DOMAIN exports |-> writeLEB128(Len(Imports) + (e - 1))])

\* The initial value of a global: a zero constant of its type.
globalInit(type) ==
    CASE type = WASMType.I32 -> << WasmOp.I32_CONST, 0 >>
      [] type = WASMType.I64 -> << WasmOp.I64_CONST, 0 >>
      [] type = WASMType.F32 -> << WasmOp.F32_CONST >> \o F32Bytes(0)
      [] OTHER -> << >>

globalSection(globals) ==
    writeLEB128(Len(globals))
    \o Flatten([i \in DOMAIN globals |->
          << globals[i].type, 1 >> \o globalInit(globals[i].type) \o << WasmOp.END >>])

exportSection(exports, globals) ==
    writeLEB128(Len(exports) + Len(globals))
    \o Flatten([e \in DOMAIN exports |->
          writeWasmString(NameBytes[exports[e].name])
          \o << WASMExternalType.FUNCTION >> \o writeLEB128(Len(Imports) + (e - 1))])
    \o Flatten([i \in DOMAIN globals |->
          writeWasmString(globals[i].export_name)
          \o << WASMExternalType.GLOBAL >> \o writeLEB128(i - 1)])

codeSection(bodies) ==
    writeLEB128(Len(bodies))
    \o Flatten([e \in DOMAIN bodies |->
          writeLEB128(Len(bodies[e].body)) \o bodies[e].body])

\* WASMWriter::write, given the bodies the exports' nodes wrote.
write(exports, globals, bodies) ==
    U32Bytes(WasmMagic) \o U32Bytes(WasmVersion)
    \o writeSection(WASMSection.TYPE, typeSection(exports))
    \o writeSection(WASMSection.IMPORT, importSection)
    \o writeSection(WASMSection.FUNCTION, functionSection(exports))
    \o writeSection(WASMSection.GLOBAL, globalSection(globals))
    \o writeSection(WASMSection.EXPORT, exportSection(exports, globals))
    \o writeSection(WASMSection.CODE, codeSection(bodies))

\* Graph::generate: the messages are cleared, the exports, imports and
\* globals are registered, the header is written, and the writer lays out
\* the module, asking each export's node for its function body.
\* What Graph::generate leaves behind, given the bodies r the nodes wrote:
\* the nodes with their messages and the buffer.
generated(g, r) ==
    [nodes |-> r.st.nodes, bodies |-> r.bodies, visited |-> r.st.visited,
     diverged |-> r.st.diverged,
     blob |-> ScriptHeader \o write(Exports(g), Globals(g), r.bodies)]

generateGraph(g) ==
    generated(g, writeCode([g EXCEPT !.m_nodes = clearErrors(g.m_nodes)], Exports(g), 1,
                           GenState(clearErrors(g.m_nodes)), <<>>))

(***************************************************************************)
(* The operations on the graph, as actions.  last_op records an addNode    *)
(* (with the id it assigned) and a removeNode (with the id of the node and *)
(* the number of links it erased); every other operation is "other".       *)
(***************************************************************************)
Op(name, node, erased) == [op |-> name, node |-> node, erased |-> erased]

\* The counter values a session starts from: a new graph, and a graph whose
\* counter earlier insertions and removals have brought next to 0x7fff.
StartCounters == {0, NodeIdMask - 1}

IdBase(c) == IF c >= NodeIdMask - 1 THEN NodeIdMask - 1 ELSE 0

\* The model stops handing out ids `max` above the session's start.
IdsLeft(c, max) == c - IdBase(c) < max

ConstValues == {0, 1}
VarNames == { <<>>, <<1>> }

\* The node-creation menu (onContextMenu): creator.create(graph) through
\* Graph::createNode, then n->m_pos = pos.
EditorCreateNode(type, pos) ==
    LET g == createNode(TheGraph, type)
        k == Len(g.m_nodes)
    IN  /\ m_nodes' = [g.m_nodes EXCEPT ![k].m_pos = pos]
        /\ m_node_counter' = g.m_node_counter
        /\ issued' = issued \cup { g.m_nodes[k].m_id }
        /\ last_op' = Op("addNode", g.m_nodes[k].m_id, 0)
        /\ UNCHANGED <<m_links, m_variables, saved>>
        /\ UNCHANGED gen_vars

\* The "Get variable" / "Set variable" menus: addNode<...>(graph, idx) for a
\* variable whose name is not empty (idx counts from 0).
EditorCreateVariableNode(type, idx, pos) ==
    LET g == addNode(TheGraph, type, idx)
        k == Len(g.m_nodes)
    IN  /\ idx + 1 \in DOMAIN m_variables
        /\ Len(m_variables[idx + 1].name) > 0
        /\ m_nodes' = [g.m_nodes EXCEPT ![k].m_pos = pos]
        /\ m_node_counter' = g.m_node_counter
        /\ issued' = issued \cup { g.m_nodes[k].m_id }
        /\ last_op' = Op("addNode", g.m_nodes[k].m_id, 0)
        /\ UNCHANGED <<m_links, m_variables, saved>>
        /\ UNCHANGED gen_vars

\* ConstNode::onGUI (DragFloat on m_value) and SwitchNode::onGUI (the
\* checkbox on m_is_on).
EditPayload(i, v) ==
    /\ i \in DOMAIN m_nodes
    /\ m_nodes[i].type \in {"CONST", "SWITCH"}
    /\ m_nodes[i].data # v
    /\ m_nodes' = [m_nodes EXCEPT ![i].data = v]
    /\ last_op' = Op("other", 0, 0)
    /\ UNCHANGED <<m_links, m_variables, m_node_counter, saved, issued>>
    /\ UNCHANGED gen_vars

\* The node editor joins an output pin to an input pin of two nodes of the
\* graph and appends the link.
AddLink(from_node, from_pin, to_node, to_pin) ==
    /\ from_node \in DOMAIN m_nodes
    /\ to_node \in DOMAIN m_nodes
    /\ m_links' = Append(m_links, [from |-> PinId(m_nodes[from_node].m_id, from_pin),
                                   to |-> PinId(m_nodes[to_node].m_id, to_pin)])
    /\ last_op' = Op("other", 0, 0)
    /\ UNCHANGED <<m_nodes, m_variables, m_node_counter, saved, issued>>
    /\ UNCHANGED gen_vars

\* Graph::removeLink.
RemoveLink(link) ==
    /\ link \in DOMAIN m_links
    /\ m_links' = RemoveAt(m_links, link)
    /\ last_op' = Op("other", 0, 0)
    /\ UNCHANGED <<m_nodes, m_variables, m_node_counter, saved, issued>>
    /\ UNCHANGED gen_vars

\* Graph::removeNode.
RemoveNode(node) ==
    LET g == removeNode(TheGraph, node)
    IN  /\ node \in DOMAIN m_nodes
        /\ m_nodes' = g.m_nodes
        /\ m_links' = g.m_links
        /\ last_op' = Op("removeNode", m_nodes[node].m_id, Len(m_links) - Len(g.m_links))
        /\ UNCHANGED <<m_variables, m_node_counter, saved, issued>>
        /\ UNCHANGED gen_vars

\* "Add variable": m_variables.emplace(m_allocator).  The name is empty and
\* Variable::type is not initialised: any value of the enum.
AddVariable(type) ==
    /\ m_variables' = Append(m_variables, [name |-> <<>>, type |-> type])
    /\ last_op' = Op("other", 0, 0)
    /\ UNCHANGED <<m_nodes, m_links, m_node_counter, saved, issued>>
    /\ UNCHANGED gen_vars

\* The variable row of windowGUI: the type combo and the name field.
EditVariable(i, name, type) ==
    /\ i \in DOMAIN m_variables
    /\ m_variables[i] # [name |-> name, type |-> type]
    /\ m_variables' = [m_variables EXCEPT ![i] = [name |-> name, type |-> type]]
    /\ last_op' = Op("other", 0, 0)
    /\ UNCHANGED <<m_nodes, m_links, m_node_counter, saved, issued>>
    /\ UNCHANGED gen_vars

\* VisualScriptEditorWindow::serialize, as the undo history calls it to keep
\* a snapshot.
WindowSerialize ==
    /\ saved' = serialize(TheGraph)
    /\ saved' # saved
    /\ last_op' = Op("other", 0, 0)
    /\ UNCHANGED <<m_nodes, m_links, m_variables, m_node_counter, issued>>
    /\ UNCHANGED gen_vars

\* VisualScriptEditorWindow::deserialize, as undo and redo call it with a
\* snapshot: m_graph.clear(); m_graph.deserialize(blob).
WindowDeserialize ==
    LET r == deserialize(clear(TheGraph), saved)
    IN  /\ m_nodes' = r.g.m_nodes
        /\ m_links' = r.g.m_links
        /\ m_variables' = r.g.m_variables
        /\ m_node_counter' = r.g.m_node_counter
        /\ last_op' = Op("other", 0, 0)
        /\ UNCHANGED <<saved, issued>>
        /\ UNCHANGED gen_vars

\* No call of writeLEB128 is running.
LebIdle == [in |-> << >>, val |-> << >>, bytes |-> << >>, end |-> TRUE]

(***************************************************************************)
(* The initial state: an empty graph, whose first snapshot the window's    *)
(* constructor takes (pushUndo after load).                                *)
(***************************************************************************)
Init ==
    /\ m_nodes = <<>>
    /\ m_links = <<>>
    /\ m_variables = <<>>
    /\ m_node_counter \in StartCounters
    /\ saved = serialize(TheGraph)
    /\ last_op = Op("other", 0, 0)
    /\ issued = {}
    /\ out = <<>>
    /\ gen_status = "none"
    /\ visited = {}
    /\ cleared = {}
    /\ module = <<>>
    /\ edits = 0
    /\ leb = LebIdle

(***************************************************************************)
(* Spec: a graph is built by node, link and variable insertions, payload   *)
(* edits and node removals; every state it passes through is one that      *)
(* Graph::serialize can be given.                                          *)
(***************************************************************************)
PersistTypes == {"UPDATE", "CONST"}
PersistVarTypes == {"I32", "FLOAT"}

Next ==
    \/ \E type \in PersistTypes :
          /\ Len(m_nodes) < MaxNodes
          /\ IdsLeft(m_node_counter, MaxIds)
          /\ EditorCreateNode(type, 1)
    \/ \E i \in 1 .. MaxNodes, v \in ConstValues : EditPayload(i, v)
    \/ \E a \in 1 .. MaxNodes, b \in 1 .. MaxNodes :
          Len(m_links) < MaxLinks /\ AddLink(a, 0, b, 1)
    \/ \E i \in 1 .. MaxNodes : RemoveNode(i)
    \/ \E type \in PersistVarTypes : Len(m_variables) < MaxVars /\ AddVariable(type)
    \/ \E i \in 1 .. MaxVars, name \in VarNames, type \in PersistVarTypes :
          EditVariable(i, name, type)

Spec == Init /\ [][Next]_vars

(***************************************************************************)
(* EditSpec: nodes of one type are inserted, linked and removed.           *)
(***************************************************************************)
EditMaxNodes == 3
EditMaxLinks == 2
EditMaxIds == 3

EditNext ==
    \/ /\ Len(m_nodes) < EditMaxNodes
       /\ IdsLeft(m_node_counter, EditMaxIds)
       /\ EditorCreateNode("SEQUENCE", 0)
    \/ \E a \in 1 .. EditMaxNodes, b \in 1 .. EditMaxNodes :
          Len(m_links) < EditMaxLinks /\ AddLink(a, 0, b, 0)
    \/ \E i \in 1 .. EditMaxLinks : RemoveLink(i)
    \/ \E i \in 1 .. EditMaxNodes : RemoveNode(i)

EditSpec == Init /\ [][EditNext]_vars

(***************************************************************************)
(* UndoSpec: nodes are inserted and removed, and the undo history takes    *)
(* snapshots of the graph and reloads the graph from them.                 *)
(***************************************************************************)
UndoMaxNodes == 2
UndoMaxIds == 3

UndoNext ==
    \/ /\ Len(m_nodes) < UndoMaxNodes
       /\ IdsLeft(m_node_counter, UndoMaxIds)
       /\ EditorCreateNode("UPDATE", 0)
    \/ \E i \in 1 .. UndoMaxNodes : RemoveNode(i)
    \/ WindowSerialize
    \/ /\ LET c == deserialize(clear(TheGraph), saved).g.m_node_counter
          IN  c - IdBase(c) <= UndoMaxIds
       /\ WindowDeserialize

UndoSpec == Init /\ [][UndoNext]_vars

(***************************************************************************)
(* LoadSpec: the graph is edited, the undo history takes snapshots, and    *)
(* the graph is loaded from a snapshot whose first two words are what the  *)
(* file gives: the right ones or others.                                   *)
(***************************************************************************)
LoadMaxNodes == 2
LoadMaxIds == 3

\* VisualScriptEditorWindow::deserialize given a stream with the header
\* words (magic, version) and the rest of the snapshot: m_graph.clear(),
\* then m_graph.deserialize(blob), whose result the window ignores.
LoadStream(magic, version) ==
    LET blob == [saved EXCEPT ![1] = magic, ![2] = version]
        r == deserialize(clear(TheGraph), blob)
    IN  /\ m_nodes' = r.g.m_nodes
        /\ m_links' = r.g.m_links
        /\ m_variables' = r.g.m_variables
        /\ m_node_counter' = r.g.m_node_counter
        /\ last_op' = [op |-> "deserialize", magic |-> magic, version |-> version,
                       ok |-> r.ok]
        /\ UNCHANGED <<saved, issued>>
        /\ UNCHANGED gen_vars

LoadNext ==
    \/ \E type \in PersistTypes :
          /\ Len(m_nodes) < LoadMaxNodes
          /\ IdsLeft(m_node_counter, LoadMaxIds)
          /\ EditorCreateNode(type, 0)
    \/ \E type \in PersistVarTypes : Len(m_variables) < MaxVars /\ AddVariable(type)
    \/ WindowSerialize
    \/ \E magic \in {MAGIC, 0}, version \in {VERSION, 1} :
          /\ LET g == deserialize(clear(TheGraph), saved).g
             IN  g.m_node_counter - IdBase(g.m_node_counter) <= LoadMaxIds
          /\ LoadStream(magic, version)

LoadSpec == Init /\ [][LoadNext]_vars

(***************************************************************************)
(* LebSpec: one call of writeLEB128, pass by pass of its loop, for an       *)
(* argument drawn from the values whose low groups are free and whose      *)
(* other bits are all 0 or all 1, and the largest and smallest i64.         *)
(***************************************************************************)
LebLowGroups == 2

LebGroupValues == {0, 1, 63, 64, 127}

\* The u64 with the given low groups and every other bit equal to `fill`.
LebFilled(low, fill) ==
    [i \in 1 .. U64Groups |->
        IF i <= Len(low) THEN low[i]
        ELSE IF i = U64Groups THEN fill * (TopGroupSize - 1) ELSE fill * 127]

LebMaxI64 == [i \in 1 .. U64Groups |-> IF i = U64Groups THEN 0 ELSE 127]

LebMinI64 == [i \in 1 .. U64Groups |-> IF i = U64Groups THEN TopGroupSize - 1 ELSE 0]

LebInputs ==
    { LebFilled(low, fill) : low \in [1 .. LebLowGroups -> LebGroupValues], fill \in {0, 1} }
    \cup { LebMaxI64, LebMinI64 }

LebInit ==
    /\ m_nodes = <<>>
    /\ m_links = <<>>
    /\ m_variables = <<>>
    /\ m_node_counter = 0
    /\ saved = serialize(TheGraph)
    /\ last_op = Op("other", 0, 0)
    /\ issued = {}
    /\ out = <<>>
    /\ gen_status = "none"
    /\ visited = {}
    /\ cleared = {}
    /\ module = <<>>
    /\ edits = 0
    /\ \E v \in LebInputs : leb = [in |-> v, val |-> v, bytes |-> << >>, end |-> FALSE]

\* One pass of the loop of writeLEB128.
LebPass ==
    LET p == lebPass(leb.val)
    IN  /\ ~leb.end
        /\ leb' = [leb EXCEPT !.val = p.val, !.bytes = Append(@, p.byte), !.end = p.end]
        /\ UNCHANGED <<m_nodes, m_links, m_variables, m_node_counter, saved, last_op,
                       issued, out, gen_status, visited, cleared, module, edits>>

LebNext == LebPass

LebSpec == LebInit /\ [][LebNext]_vars

(***************************************************************************)
(* GenSpec: the editor window opens a graph that was saved earlier, the    *)
(* user adds and removes links between the pins the nodes show, and the    *)
(* graph is compiled (saveAs calls Graph::generate) at any moment.         *)
(***************************************************************************)
GenMaxEdits == 1

BinaryTypes == CompareTypes \cup {"ADD", "MUL"}

\* The number of output pins the node's onGUI shows (flow outputs included).
OutputPins(type) ==
    CASE type \in {"IF", "SWITCH", "KEY_INPUT", "UPDATE", "SEQUENCE"} -> 2
      [] type = "MOUSE_MOVE" -> 3
      [] OTHER -> 1

\* The number of input pins the node's onGUI shows (the flow input included).
InputPins(type) ==
    CASE type \in BinaryTypes \cup {"IF", "SET_VARIABLE"} -> 2
      [] type \in {"SET_YAW", "SET_PROPERTY", "VEC3"} -> 3
      [] type \in {"SEQUENCE", "SWITCH", "CALL", "GET_PROPERTY", "YAW_TO_DIR"} -> 1
      [] OTHER -> 0

\* A saved graph: the nodes carry the ids 1, 2, ... in list order.
SeedNode(i, type, data) ==
    [type |-> type, m_id |-> i, m_pos |-> 0, data |-> data, m_error |-> ""]

SeedLink(from_id, from_pin, to_id, to_pin) ==
    [from |-> PinId(from_id, from_pin), to |-> PinId(to_id, to_pin)]

\* A flow chain whose first statement has no value input.
ChainSeed(stmt) ==
    MkGraph(<< SeedNode(1, "UPDATE", 0), SeedNode(2, stmt, 0),
               SeedNode(3, "SET_VARIABLE", 0), SeedNode(4, "CONST", 1) >>,
            << SeedLink(1, 0, 2, 0), SeedLink(2, 0, 3, 0), SeedLink(4, 0, 3, 1) >>,
            << [name |-> << 1 >>, type |-> "I32"] >>, 4)

\* A statement that stores the result of a binary node; the operands come
\* from a float constant (4) or an I32 variable (5).
BinarySeed(op, left, right) ==
    MkGraph(<< SeedNode(1, "UPDATE", 0), SeedNode(2, "SET_VARIABLE", 0),
               SeedNode(3, op, 0), SeedNode(4, "CONST", 1),
               SeedNode(5, "GET_VARIABLE", 0) >>,
            << SeedLink(1, 0, 2, 0), SeedLink(3, 0, 2, 1),
               SeedLink(left, 0, 3, 0), SeedLink(right, 0, 3, 1) >>,
            << [name |-> << 1 >>, type |-> "I32"] >>, 5)

StatementTypes == {"SET_VARIABLE", "SET_YAW", "SET_PROPERTY"}

OperandNodes == {4, 5}

GenSeeds ==
    { ChainSeed(stmt) : stmt \in StatementTypes }
    \cup { BinarySeed(op, l, r) : op \in BinaryTypes, l \in OperandNodes, r \in OperandNodes }

GenInit ==
    /\ \E g \in GenSeeds :
          /\ m_nodes = g.m_nodes
          /\ m_links = g.m_links
          /\ m_variables = g.m_variables
          /\ m_node_counter = g.m_node_counter
          /\ saved = serialize(g)
    /\ last_op = Op("other", 0, 0)
    /\ issued = {}
    /\ out = <<>>
    /\ gen_status = "none"
    /\ visited = {}
    /\ cleared = {}
    /\ module = <<>>
    /\ edits = 0
    /\ leb = LebIdle

\* A link drawn between an output pin and an input pin of two nodes.
GenAddLink(from_node, from_pin, to_node, to_pin) ==
    /\ gen_status # "diverged"
    /\ edits < GenMaxEdits
    /\ m_links' = Append(m_links, [from |-> PinId(m_nodes[from_node].m_id, from_pin),
                                   to |-> PinId(m_nodes[to_node].m_id, to_pin)])
    /\ edits' = edits + 1
    /\ last_op' = Op("other", 0, 0)
    /\ UNCHANGED <<m_nodes, m_variables, m_node_counter, saved, issued>>
    /\ UNCHANGED <<out, gen_status, visited, cleared, module, leb>>

\* A link deleted in the canvas.
GenRemoveLink(link) ==
    /\ gen_status # "diverged"
    /\ edits < GenMaxEdits
    /\ m_links' = RemoveAt(m_links, link)
    /\ edits' = edits + 1
    /\ last_op' = Op("other", 0, 0)
    /\ UNCHANGED <<m_nodes, m_variables, m_node_counter, saved, issued>>
    /\ UNCHANGED <<out, gen_status, visited, cleared, module, leb>>

\* The mutant of Generate: the buffer handed to Graph::generate is the one
\* the compile before it filled.
Generate_SameBuffer ==
    LET r == generateGraph(TheGraph)
    IN  /\ gen_status # "diverged"
        /\ ~r.diverged
        /\ last_op' = Op("generate", 0, 0)
        /\ gen_status' = "returned"
        /\ m_nodes' = r.nodes
        /\ out' = r.bodies
        /\ module' = module \o r.blob
        /\ visited' = r.visited
        /\ cleared' = { m_nodes[i].m_id : i \in { j \in DOMAIN m_nodes :
                                                 m_nodes[j].m_error # "" } }
        /\ UNCHANGED <<m_links, m_variables, m_node_counter, saved, issued, edits, leb>>

\* Graph::generate, as saveAs calls it.  A compile whose recursion never
\* comes back leaves nothing behind: the call does not return.
Compile(r) ==
    /\ gen_status # "diverged"
    /\ last_op' = Op("generate", 0, 0)
    /\ IF r.diverged
       THEN /\ gen_status' = "diverged"
            /\ UNCHANGED <<m_nodes, out, visited, cleared, module>>
       ELSE /\ gen_status' = "returned"
            /\ m_nodes' = r.nodes
            /\ out' = r.bodies
            /\ module' = r.blob
            /\ visited' = r.visited
            /\ cleared' = { m_nodes[i].m_id : i \in { j \in DOMAIN m_nodes :
                                                     m_nodes[j].m_error # "" } }
    /\ UNCHANGED <<m_links, m_variables, m_node_counter, saved, issued, edits, leb>>

Generate == Compile(generateGraph(TheGraph))

GenNext ==
    \/ \E a \in DOMAIN m_nodes, b \in DOMAIN m_nodes :
          \E ap \in 0 .. OutputPins(m_nodes[a].type) - 1,
             bp \in 0 .. InputPins(m_nodes[b].type) - 1 :
             GenAddLink(a, ap, b, bp)
    \/ \E i \in DOMAIN m_links : GenRemoveLink(i)
    \/ Generate

GenSpec == GenInit /\ [][GenNext]_vars

(***************************************************************************)
(* VarSpec: the variable list of a saved graph is edited in the side       *)
(* panel (rows added, names and types changed) and the graph is compiled.  *)
(***************************************************************************)
VarMaxVars == 2

\* An update handler that copies variable 0 onto itself.
VarSeed ==
    MkGraph(<< SeedNode(1, "UPDATE", 0), SeedNode(2, "SET_VARIABLE", 0),
               SeedNode(3, "GET_VARIABLE", 0) >>,
            << SeedLink(1, 0, 2, 0), SeedLink(3, 0, 2, 1) >>,
            << [name |-> << 1 >>, type |-> "I32"] >>, 3)

\* The entries of the type combo.
ComboTypes == { ValueTypeNames[i] : i \in DOMAIN ValueTypeNames }

VarInit ==
    /\ m_nodes = VarSeed.m_nodes
    /\ m_links = VarSeed.m_links
    /\ m_variables = VarSeed.m_variables
    /\ m_node_counter = VarSeed.m_node_counter
    /\ saved = serialize(VarSeed)
    /\ last_op = Op("other", 0, 0)
    /\ issued = {}
    /\ out = <<>>
    /\ gen_status = "none"
    /\ visited = {}
    /\ cleared = {}
    /\ module = <<>>
    /\ edits = 0
    /\ leb = LebIdle

VarNext ==
    \/ \E type \in ComboTypes : Len(m_variables) < VarMaxVars /\ AddVariable(type)
    \/ \E i \in 1 .. VarMaxVars, name \in VarNames, type \in ComboTypes :
          EditVariable(i, name, type)
    \/ Generate

VarSpec == VarInit /\ [][VarNext]_vars

(***************************************************************************)
(* FlowSpec: as GenSpec, on saved graphs built around the flow nodes.      *)
(***************************************************************************)
\* A key handler that branches on the key: the If node (2) has its
\* condition from the entry's value pin and a statement on each output.
IfSeed ==
    MkGraph(<< SeedNode(1, "KEY_INPUT", 0), SeedNode(2, "IF", 0),
               SeedNode(3, "SET_VARIABLE", 0), SeedNode(4, "SET_VARIABLE", 0),
               SeedNode(5, "CONST", 1) >>,
            << SeedLink(1, 0, 2, 0), SeedLink(1, 1, 2, 1), SeedLink(2, 0, 3, 0),
               SeedLink(2, 1, 4, 0), SeedLink(5, 0, 3, 1), SeedLink(5, 0, 4, 1) >>,
            << [name |-> << 1 >>, type |-> "I32"] >>, 5)

\* The graph AssetPlugin::createResource writes: one UPDATE node.
UpdateOnlySeed == MkGraph(<< SeedNode(1, "UPDATE", 0) >>, << >>, << >>, 1)

\* An entry node of the kind with one statement on its flow output.
EntryChainSeed(kind) ==
    MkGraph(<< SeedNode(1, kind, 0), SeedNode(2, "SET_VARIABLE", 0),
               SeedNode(3, "CONST", 1) >>,
            << SeedLink(1, 0, 2, 0), SeedLink(3, 0, 2, 1) >>,
            << [name |-> << 1 >>, type |-> "I32"] >>, 3)

\* Entry nodes of the kinds, in the order given, and one statement on the
\* flow output of the last of them.
MultiEntrySeed(kinds) ==
    LET n == Len(kinds)
    IN  MkGraph([i \in 1 .. n + 2 |->
                    IF i <= n THEN SeedNode(i, kinds[i], 0)
                    ELSE IF i = n + 1 THEN SeedNode(i, "SET_VARIABLE", 0)
                    ELSE SeedNode(i, "CONST", 1)],
                (IF n = 0 THEN << >> ELSE << SeedLink(n, 0, n + 1, 0) >>)
                \o << SeedLink(n + 2, 0, n + 1, 1) >>,
                << [name |-> << 1 >>, type |-> "I32"] >>, n + 2)

\* An update handler that runs a Sequence node (2): the output pins in
\* `pins` lead to the statements 3 (pin 0) and 4 (pins 1 and 2), both fed
\* by the constant 5; the pins in `dangling` lead to a node that is not in
\* the file.
SequenceSeed(pins, dangling) ==
    MkGraph(<< SeedNode(1, "UPDATE", 0), SeedNode(2, "SEQUENCE", 0),
               SeedNode(3, "SET_VARIABLE", 0), SeedNode(4, "SET_VARIABLE", 1),
               SeedNode(5, "CONST", 1) >>,
            << SeedLink(1, 0, 2, 0), SeedLink(5, 0, 3, 1), SeedLink(5, 0, 4, 1) >>
            \o Flatten([p \in 1 .. 3 |->
                  IF (p - 1) \in dangling THEN << SeedLink(2, p - 1, 9, 0) >>
                  ELSE IF (p - 1) \in pins
                       THEN << SeedLink(2, p - 1, IF p = 1 THEN 3 ELSE 4, 0) >>
                  ELSE << >>]),
            [v \in 1 .. 2 |-> [name |-> << v >>, type |-> "I32"]], 5)

SequenceSeeds ==
    { SequenceSeed(pins, {}) : pins \in SUBSET {0, 1, 2} }
    \cup { SequenceSeed({0, 2}, {1}) }

\* Every choice of entry kinds, listed against the order of the exports;
\* every kind twice; and a kind twice with another between.
EntryKindLists ==
    { SelectSeq(<< "START", "KEY_INPUT", "MOUSE_MOVE", "UPDATE" >>, LAMBDA t : t \in S) :
        S \in SUBSET EntryTypes }
    \cup { << kind, kind >> : kind \in EntryTypes }
    \cup { << "UPDATE", "START", "UPDATE" >> }

FlowSeeds ==
    { IfSeed, UpdateOnlySeed } \cup { EntryChainSeed(kind) : kind \in EntryTypes }

FlowInit ==
    /\ \E g \in FlowSeeds :
          /\ m_nodes = g.m_nodes
          /\ m_links = g.m_links
          /\ m_variables = g.m_variables
          /\ m_node_counter = g.m_node_counter
          /\ saved = serialize(g)
    /\ last_op = Op("other", 0, 0)
    /\ issued = {}
    /\ out = <<>>
    /\ gen_status = "none"
    /\ visited = {}
    /\ cleared = {}
    /\ module = <<>>
    /\ edits = 0
    /\ leb = LebIdle

FlowSpec == FlowInit /\ [][GenNext]_vars

(***************************************************************************)
(* ExportSpec: as GenSpec, on saved graphs with any choice of entry nodes. *)
(***************************************************************************)
ExportInit ==
    /\ \E g \in { MultiEntrySeed(kinds) : kinds \in EntryKindLists } :
          /\ m_nodes = g.m_nodes
          /\ m_links = g.m_links
          /\ m_variables = g.m_variables
          /\ m_node_counter = g.m_node_counter
          /\ saved = serialize(g)
    /\ last_op = Op("other", 0, 0)
    /\ issued = {}
    /\ out = <<>>
    /\ gen_status = "none"
    /\ visited = {}
    /\ cleared = {}
    /\ module = <<>>
    /\ edits = 0
    /\ leb = LebIdle

ExportSpec == ExportInit /\ [][GenNext]_vars

(***************************************************************************)
(* SequenceSpec: as GenSpec, on saved graphs built around a Sequence node. *)
(***************************************************************************)
SequenceInit ==
    /\ \E g \in SequenceSeeds :
          /\ m_nodes = g.m_nodes
          /\ m_links = g.m_links
          /\ m_variables = g.m_variables
          /\ m_node_counter = g.m_node_counter
          /\ saved = serialize(g)
    /\ last_op = Op("other", 0, 0)
    /\ issued = {}
    /\ out = <<>>
    /\ gen_status = "none"
    /\ visited = {}
    /\ cleared = {}
    /\ module = <<>>
    /\ edits = 0
    /\ leb = LebIdle

SequenceSpec == SequenceInit /\ [][GenNext]_vars

(***************************************************************************)
(* SwitchSpec: as GenSpec, on saved graphs built around a Switch node.     *)
(***************************************************************************)
\* An update handler that runs a Switch node (2) whose checkbox is is_on:
\* the output pins in `pins` lead to the statements 3 (pin 0, "On") and 4
\* (pin 1, "Off"), both fed by the constant 5.
SwitchSeed(is_on, pins) ==
    MkGraph(<< SeedNode(1, "UPDATE", 0), SeedNode(2, "SWITCH", is_on),
               SeedNode(3, "SET_VARIABLE", 0), SeedNode(4, "SET_VARIABLE", 1),
               SeedNode(5, "CONST", 1) >>,
            << SeedLink(1, 0, 2, 0), SeedLink(5, 0, 3, 1), SeedLink(5, 0, 4, 1) >>
            \o Flatten([p \in 1 .. 2 |->
                  IF (p - 1) \in pins THEN << SeedLink(2, p - 1, 2 + p, 0) >> ELSE << >>]),
            [v \in 1 .. 2 |-> [name |-> << v >>, type |-> "I32"]], 5)

SwitchSeeds == { SwitchSeed(is_on, pins) : is_on \in {0, 1}, pins \in SUBSET {0, 1} }

SwitchInit ==
    /\ \E g \in SwitchSeeds :
          /\ m_nodes = g.m_nodes
          /\ m_links = g.m_links
          /\ m_variables = g.m_variables
          /\ m_node_counter = g.m_node_counter
          /\ saved = serialize(g)
    /\ last_op = Op("other", 0, 0)
    /\ issued = {}
    /\ out = <<>>
    /\ gen_status = "none"
    /\ visited = {}
    /\ cleared = {}
    /\ module = <<>>
    /\ edits = 0
    /\ leb = LebIdle

SwitchSpec == SwitchInit /\ [][GenNext]_vars

(***************************************************************************)
(* ParamSpec: as GenSpec, on saved graphs in which a statement on an entry *)
(* node's flow chain stores the value of an event-parameter pin.           *)
(***************************************************************************)
\* The value pins of the entry nodes: [type, pin].
ParameterPins ==
    { [type |-> "UPDATE", pin |-> 1], [type |-> "KEY_INPUT", pin |-> 1],
      [type |-> "MOUSE_MOVE", pin |-> 1], [type |-> "MOUSE_MOVE", pin |-> 2] }

\* The entry node 1 runs the statement 2, whose value comes from the
\* parameter pin of the same node.
OwnParameterSeed(src) ==
    MkGraph(<< SeedNode(1, src.type, 0), SeedNode(2, "SET_VARIABLE", 0) >>,
            << SeedLink(1, 0, 2, 0), SeedLink(1, src.pin, 2, 1) >>,
            << [name |-> << 1 >>, type |-> "FLOAT"] >>, 2)

\* The entry node 1 runs the statement 3, whose value comes from the
\* parameter pin of another entry node, 2.
OtherParameterSeed(kind, src) ==
    MkGraph(<< SeedNode(1, kind, 0), SeedNode(2, src.type, 0),
               SeedNode(3, "SET_VARIABLE", 0) >>,
            << SeedLink(1, 0, 3, 0), SeedLink(2, src.pin, 3, 1) >>,
            << [name |-> << 1 >>, type |-> "FLOAT"] >>, 3)

ParamSeeds ==
    { OwnParameterSeed(src) : src \in ParameterPins }
    \cup { OtherParameterSeed(kind, src) : kind \in EntryTypes, src \in ParameterPins }

ParamInit ==
    /\ \E g \in ParamSeeds :
          /\ m_nodes = g.m_nodes
          /\ m_links = g.m_links
          /\ m_variables = g.m_variables
          /\ m_node_counter = g.m_node_counter
          /\ saved = serialize(g)
    /\ last_op = Op("other", 0, 0)
    /\ issued = {}
    /\ out = <<>>
    /\ gen_status = "none"
    /\ visited = {}
    /\ cleared = {}
    /\ module = <<>>
    /\ edits = 0
    /\ leb = LebIdle

ParamSpec == ParamInit /\ [][GenNext]_vars

(***************************************************************************)
(* VarEditSpec: the variable list is edited in the side panel (rows added, *)
(* named and deleted) and variable nodes are created from the menu.        *)
(***************************************************************************)
VarEditMaxVars == 2
VarEditMaxNodes == 4

\* The trash button of a variable row: m_variables.erase(index), index from
\* 0.  Nothing else is touched.
RemoveVariable(index) ==
    /\ index + 1 \in DOMAIN m_variables
    /\ m_variables' = RemoveAt(m_variables, index + 1)
    /\ last_op' = [op |-> "removeVariable", index |-> index]
    /\ UNCHANGED <<m_nodes, m_links, m_node_counter, saved, issued>>
    /\ UNCHANGED gen_vars

VarEditNext ==
    \/ \E type \in PersistVarTypes :
          Len(m_variables) < VarEditMaxVars /\ AddVariable(type)
    \/ \E i \in 1 .. VarEditMaxVars, name \in VarNames, type \in PersistVarTypes :
          EditVariable(i, name, type)
    \/ \E index \in 0 .. VarEditMaxVars - 1 : RemoveVariable(index)
    \/ \E type \in VariableNodeTypes, idx \in 0 .. VarEditMaxVars - 1 :
          Len(m_nodes) < VarEditMaxNodes /\ EditorCreateVariableNode(type, idx, 0)

VarEditSpec == VarInit /\ [][VarEditNext]_vars

(***************************************************************************)
(* CompileSpec: the asset compiler.  `saved` is the source file on disk,   *)
(* `module` the compiled resource the asset compiler holds for it (empty   *)
(* until one is written).  AssetPlugin::compile works on a graph of its    *)
(* own; the editor window's graph takes no part.                           *)
(***************************************************************************)
\* An update handler whose Sequence node (2) leads back to itself.
LoopSeed ==
    MkGraph(<< SeedNode(1, "UPDATE", 0), SeedNode(2, "SEQUENCE", 0) >>,
            << SeedLink(1, 0, 2, 0), SeedLink(2, 0, 2, 0) >>, << >>, 2)

\* AssetPlugin::createResource: a graph of one UPDATE node.
createResource == serialize(addNode(EmptyGraph, "UPDATE", 0))

\* The graphs the source files hold.
CompileSources ==
    { ChainSeed(stmt) : stmt \in StatementTypes }
    \cup { BinarySeed(op, 4, 5) : op \in {"ADD", "EQ"} }
    \cup FlowSeeds \cup SwitchSeeds \cup { LoopSeed, VarSeed }

\* Files with the extension wasm: empty, a module with no section, and
\* anything else (here, the bytes of the graph file).
WasmFiles(file) == { << >>, U32Bytes(WasmMagic) \o U32Bytes(WasmVersion), file }

\* The mutant of compile: the result of graph.deserialize is not looked at.
compile_IgnoresLoadResult(ext, readable, content, loaded) ==
    IF ~readable THEN [ok |-> FALSE, returned |-> TRUE, written |-> FALSE, resource |-> << >>]
    ELSE IF ext = "wasm"
    THEN [ok |-> TRUE, returned |-> TRUE, written |-> TRUE, resource |-> ScriptHeader \o content]
    ELSE IF loaded.diverged
    THEN [ok |-> FALSE, returned |-> FALSE, written |-> FALSE, resource |-> << >>]
    ELSE [ok |-> TRUE, returned |-> TRUE, written |-> TRUE, resource |-> loaded.blob]

\* AssetPlugin::compile of a source with the extension ext, which
\* getContentSync reads (content) or fails to read; `loaded` is what
\* graph.deserialize and graph.generate make of the content.  The result:
\* the value returned, and the resource handed to writeCompiledResource.
compile(ext, readable, content, loaded) ==
    IF ~readable THEN [ok |-> FALSE, returned |-> TRUE, written |-> FALSE, resource |-> << >>]
    ELSE IF ext = "wasm"
    THEN [ok |-> TRUE, returned |-> TRUE, written |-> TRUE, resource |-> ScriptHeader \o content]
    ELSE IF ~loaded.ok
    THEN [ok |-> FALSE, returned |-> TRUE, written |-> FALSE, resource |-> << >>]
    ELSE IF loaded.diverged
    THEN [ok |-> FALSE, returned |-> FALSE, written |-> FALSE, resource |-> << >>]
    ELSE [ok |-> TRUE, returned |-> TRUE, written |-> TRUE, resource |-> loaded.blob]

\* graph.deserialize(iblob) on a new Graph, then graph.generate(compiled).
loaded(x) == [ok |-> TRUE, diverged |-> x.diverged, blob |-> x.blob]

loadAndGenerate(r) ==
    IF ~r.ok THEN [ok |-> FALSE, diverged |-> FALSE, blob |-> << >>]
    ELSE loaded(generateGraph(r.g))

CompileDone(ext, readable, content, c) ==
    /\ gen_status # "diverged"
    /\ last_op' = [op |-> "compile", ext |-> ext, readable |-> readable,
                   content |-> content, ok |-> c.ok, returned |-> c.returned]
    /\ module' = IF c.written THEN c.resource ELSE module
    /\ gen_status' = IF c.returned THEN "returned" ELSE "diverged"
    /\ UNCHANGED <<m_nodes, m_links, m_variables, m_node_counter, saved, issued, out,
                   visited, cleared, edits, leb>>

AssetCompile(ext, readable, content) ==
    CompileDone(ext, readable, content,
                compile(ext, readable, content,
                        loadAndGenerate(deserialize(EmptyGraph, content))))

\* A new source file made by the asset browser.
AssetCreate ==
    /\ gen_status # "diverged"
    /\ saved # createResource
    /\ saved' = createResource
    /\ last_op' = Op("other", 0, 0)
    /\ UNCHANGED <<m_nodes, m_links, m_variables, m_node_counter, issued>>
    /\ UNCHANGED gen_vars

CompileInit ==
    /\ m_nodes = <<>>
    /\ m_links = <<>>
    /\ m_variables = <<>>
    /\ m_node_counter = 0
    /\ \E g \in CompileSources : saved = serialize(g)
    /\ last_op = Op("other", 0, 0)
    /\ issued = {}
    /\ out = <<>>
    /\ gen_status = "none"
    /\ visited = {}
    /\ cleared = {}
    /\ module = <<>>
    /\ edits = 0
    /\ leb = LebIdle

CompileNext ==
    \/ \E readable \in BOOLEAN, magic \in {MAGIC, 0}, version \in {VERSION, 1} :
          AssetCompile("lvs", readable, [saved EXCEPT ![1] = magic, ![2] = version])
    \/ \E readable \in BOOLEAN, content \in WasmFiles(saved) :
          AssetCompile("wasm", readable, content)
    \/ AssetCreate

CompileSpec == CompileInit /\ [][CompileNext]_vars

(***************************************************************************)
(* Claims on persistence and on node identifiers.                          *)
(***************************************************************************)
NodeFields(n) == [type |-> n.type, m_id |-> n.m_id, m_pos |-> n.m_pos, data |-> n.data]

PersistedNodes(nodes) == [i \in DOMAIN nodes |-> NodeFields(nodes[i])]

Reloaded(g) == deserialize(EmptyGraph, serialize(g))

\* C1: loading the stream Graph::serialize wrote for the graph into an empty
\* graph gives the same variables (name, type), the same links (from, to)
\* and the same nodes (type, id, position, payload).
C1_RoundTrip ==
    LET r == Reloaded(TheGraph)
    IN  /\ r.ok
        /\ r.g.m_variables = m_variables
        /\ r.g.m_links = m_links
        /\ PersistedNodes(r.g.m_nodes) = PersistedNodes(m_nodes)

\* A graph with a named variable, a link, and a constant node whose value,
\* position and id are not what createNode gives a new node on load.
C1_Witness ==
    /\ \E i \in DOMAIN m_variables : m_variables[i].name # <<>>
    /\ Len(m_links) > 0
    /\ \E i \in DOMAIN m_nodes :
          /\ m_nodes[i].type = "CONST"
          /\ m_nodes[i].data # DefaultData("CONST")
          /\ m_nodes[i].m_pos # 0
          /\ m_nodes[i].m_id # m_node_counter + i
    /\ Len(m_nodes) = MaxNodes

\* C2: serialize after deserialize reproduces the stream exactly, the
\* next-id counter included.
C2_ByteRoundTrip ==
    LET b == serialize(TheGraph)
    IN  serialize(deserialize(EmptyGraph, b).g) = b

C4_IdsNeverReused ==
    [][ last_op'.op = "addNode" =>
          /\ \A old \in issued : last_op'.node > old
          /\ \A i, j \in DOMAIN m_nodes' :
                i # j => m_nodes'[i].m_id # m_nodes'[j].m_id ]_vars

\* C5: every node id is in 1 .. 0x7fff.
C5_IdsFit15Bits ==
    \A i \in DOMAIN m_nodes : 1 <= m_nodes[i].m_id /\ m_nodes[i].m_id <= NodeIdMask


(***************************************************************************)
(* The claims about code generation, checked under GenSpec.                *)
(***************************************************************************)
JustCompiled == last_op.op = "generate" /\ gen_status = "returned"

\* What node k writes, and reports, when it is asked for selector sel on a
\* stream of its own.
NodeCode(g, k, sel) == generate(g, k, sel, GenState(clearErrors(g.m_nodes)), {})

\* C6: a compile always comes back: no call of Graph::generate ends in a
\* recursion that returns to a call still running.
C6_GenerateTerminates == gen_status # "diverged"

\* C7: after a compile, a statement node (set-variable, set-yaw,
\* set-property) that was reached and carries a message has not cut its flow
\* chain: the node on its flow output, if there is one, was generated too.
C7_DiagnosticKeepsChain ==
    JustCompiled =>
        \A k \in DOMAIN m_nodes :
            (/\ m_nodes[k].type \in StatementTypes
             /\ m_nodes[k].m_id \in visited
             /\ m_nodes[k].m_error # "")
            => LET n == getOutputNode(TheGraph, k, 0)
               IN  n.node # 0 => m_nodes[n.node].m_id \in visited

\* The operator the text names for a binary node and an operand type: the
\* F32 one for FLOAT operands, the I32 one otherwise.
OperatorFor(type, value_type) ==
    IF value_type = "FLOAT"
    THEN [ADD |-> WasmOp.F32_ADD, MUL |-> WasmOp.F32_MUL, EQ |-> WasmOp.F32_EQ,
          NEQ |-> WasmOp.F32_NEQ, LT |-> WasmOp.F32_LT, GT |-> WasmOp.F32_GT,
          LTE |-> WasmOp.F32_LE, GTE |-> WasmOp.F32_GE][type]
    ELSE [ADD |-> WasmOp.I32_ADD, MUL |-> WasmOp.I32_MUL, EQ |-> WasmOp.I32_EQ,
          NEQ |-> WasmOp.I32_NEQ, LT |-> WasmOp.I32_LT_S, GT |-> WasmOp.I32_GT_S,
          LTE |-> WasmOp.I32_LE_S, GTE |-> WasmOp.I32_GE_S][type]

\* Binary node k has both inputs resolved, and the two operand types are
\* equal (same = TRUE) or differ (same = FALSE).
BinaryCase(g, k, same) ==
    /\ g.m_nodes[k].type \in BinaryTypes
    /\ LET a == getInputNode(g, k, 0)
           b == getInputNode(g, k, 1)
       IN  /\ a.node # 0
           /\ b.node # 0
           /\ ~NodeCode(g, k, 0).diverged
           /\ (getOutputType(g, a.node, a.idx, {}) = getOutputType(g, b.node, b.idx, {}))
              = same

\* Node k wrote the left operand's code, the right operand's code and then
\* the one operator chosen from the left operand's type.
BinaryEmitted(g, k) ==
    LET a == getInputNode(g, k, 0)
        b == getInputNode(g, k, 1)
    IN  NodeCode(g, k, 0).blob
          = NodeCode(g, a.node, a.idx).blob \o NodeCode(g, b.node, b.idx).blob
            \o << OperatorFor(g.m_nodes[k].type, getOutputType(g, a.node, a.idx, {})) >>

\* C8: an Add, Mul or comparison node whose two operand types differ both
\* reports it (a message on the node) and still writes the operator for the
\* left operand's type after the two operands.
C8_MismatchReportedAndEmitted ==
    \A k \in DOMAIN m_nodes :
        BinaryCase(TheGraph, k, FALSE)
        => /\ NodeCode(TheGraph, k, 0).nodes[k].m_error # ""
           /\ BinaryEmitted(TheGraph, k)

\* C9: an Add, Mul or comparison node whose two operand types are equal
\* writes the left operand's code, the right operand's code and exactly one
\* operator (F32 for FLOAT, I32 otherwise), and carries no message, also
\* after a compile of the whole graph.
C9_MatchingTypesEmit ==
    \A k \in DOMAIN m_nodes :
        BinaryCase(TheGraph, k, TRUE)
        => /\ BinaryEmitted(TheGraph, k)
           /\ NodeCode(TheGraph, k, 0).nodes[k].m_error = ""
           /\ JustCompiled => m_nodes[k].m_error = ""

C9_Witness ==
    /\ JustCompiled
    /\ \E k \in DOMAIN m_nodes :
          /\ BinaryCase(TheGraph, k, TRUE)
          /\ m_nodes[k].type = "GTE"
          /\ m_nodes[k].m_id \in visited
          /\ getOutputType(TheGraph, k, 0, {}) = "FLOAT"
          /\ \E i \in DOMAIN out : Len(out[i].body) > Len(NodeCode(TheGraph, k, 0).blob)

\* The condition under which node k's generate reports something: an input
\* or output it needs resolves to no node, or (comparisons) the operand
\* types differ.
HasCause(g, k) ==
    LET type == g.m_nodes[k].type
        in(i) == getInputNode(g, k, i).node
        o(i) == getOutputNode(g, k, i).node
    IN  CASE type \in {"ADD", "MUL"} -> in(0) = 0 \/ in(1) = 0
          [] type \in CompareTypes ->
                \/ in(0) = 0
                \/ in(1) = 0
                \/ getOutputType(g, in(0), getInputNode(g, k, 0).idx, {})
                     # getOutputType(g, in(1), getInputNode(g, k, 1).idx, {})
          [] type = "IF" -> o(0) = 0 \/ o(1) = 0 \/ in(1) = 0
          [] type = "SET_YAW" -> in(1) = 0 \/ in(2) = 0
          [] type = "SET_VARIABLE" -> in(1) = 0
          [] type = "GET_PROPERTY" -> in(0) = 0
          [] type = "SET_PROPERTY" -> in(1) = 0
          [] OTHER -> FALSE

\* C10: after a compile, a node carries a message only if this compile
\* reached the node and the node's condition for reporting holds in the
\* graph as it is now; a message of an earlier compile does not survive.
C10_DiagnosticsRecomputed ==
    JustCompiled =>
        \A k \in DOMAIN m_nodes :
            m_nodes[k].m_error # ""
            <=> (m_nodes[k].m_id \in visited /\ HasCause(TheGraph, k))

C10_Witness ==
    /\ JustCompiled
    /\ \E k \in DOMAIN m_nodes :
          /\ m_nodes[k].m_id \in cleared
          /\ m_nodes[k].m_id \in visited
          /\ m_nodes[k].m_error = ""


NodeCodeAfter(g, k, sel, before) ==
    generate(g, k, sel, Emit(GenState(clearErrors(g.m_nodes)), before), {})

IfIncomplete(g, k) ==
    /\ g.m_nodes[k].type = "IF"
    /\ \/ getInputNode(g, k, 1).node = 0
       \/ getOutputNode(g, k, 0).node = 0
       \/ getOutputNode(g, k, 1).node = 0

\* C13: an If node whose condition input, true output or false output
\* resolves to no node sets a message on itself and leaves the buffer as it
\* was given, empty or not; after a compile that reached it the node has a
\* message.
C13_IfIncompleteEmitsNothing ==
    \A k \in DOMAIN m_nodes :
        IfIncomplete(TheGraph, k)
        => /\ \A before \in { << >>, << 0 >> } :
                LET r == NodeCodeAfter(TheGraph, k, 0, before)
                IN  /\ ~r.diverged
                    /\ r.blob = before
                    /\ r.nodes[k].m_error # ""
           /\ (JustCompiled /\ m_nodes[k].m_id \in visited) => m_nodes[k].m_error # ""

C13_Witness ==
    /\ JustCompiled
    /\ \E k \in DOMAIN m_nodes :
          /\ IfIncomplete(TheGraph, k)
          /\ getInputNode(TheGraph, k, 1).node # 0
          /\ m_nodes[k].m_id \in visited
          /\ m_nodes[k].m_error = "Missing outputs"
    /\ \E e \in DOMAIN out : out[e].name = "onKeyEvent"

\* The standard signed base-128 decoder: the low seven bits of each byte,
\* low group first, up to the first byte without bit 0x80; the number read
\* is negative exactly when bit 0x40 of that byte is set, and then every
\* bit above the ones read is 1.  The result is given as that sign and the
\* low 64 bits, in groups.
SLebLast(bytes) == MinOf({ i \in DOMAIN bytes : bytes[i] < 128 })

SLebDecode(bytes) ==
    LET n == SLebLast(bytes)
        negative == (bytes[n] % 128) >= 64
    IN  [negative |-> negative,
         bits |-> [i \in 1 .. U64Groups |->
                     LET size == IF i = U64Groups THEN TopGroupSize ELSE 128
                     IN  IF i <= n THEN (bytes[i] % 128) % size
                         ELSE IF negative THEN size - 1 ELSE 0]]

\* The integer v a u64 pattern stands for: negative when its top bit is set.
SignedValue(val) == [negative |-> val[U64Groups] = TopGroupSize - 1, bits |-> val]

\* C14: the bytes writeLEB128 has written for v, once its loop has ended,
\* end with the only byte without bit 0x80, and the signed decoder reads v
\* back from them.
C14_LebRoundTrip ==
    (leb.end /\ leb.in # << >>)
    => /\ leb.bytes = writeLEB128u(leb.in)
       /\ \E i \in DOMAIN leb.bytes : leb.bytes[i] < 128
       /\ SLebLast(leb.bytes) = Len(leb.bytes)
       /\ SLebDecode(leb.bytes) = SignedValue(leb.in)

\* The reference signed encoder, on the 64 bits of its argument: the shift
\* is arithmetic (the sign bit comes in at the top), and the last byte is
\* the first whose bit 0x40 equals every bit that is left.
sar7(val) ==
    [i \in 1 .. U64Groups |->
        IF i < U64Groups - 1 THEN val[i + 1]
        ELSE IF i = U64Groups - 1 THEN val[U64Groups] * 127
        ELSE val[U64Groups]]

RECURSIVE SLebEncode(_)
SLebEncode(val) ==
    LET byte == val[1]
        rest == sar7(val)
    IN  IF (isZero(rest) /\ byte < 64) \/ (isMinusOne(rest) /\ byte >= 64)
        THEN << byte >>
        ELSE << byte + 128 >> \o SLebEncode(rest)

\* C23: the bytes writeLEB128 has written for v, once its loop has ended,
\* are the bytes the reference signed encoder writes for v, for negative v
\* as for the others.
C23_LebCanonical ==
    (leb.end /\ leb.in # << >>) => leb.bytes = SLebEncode(leb.in)

\* The same, for the arguments that are not negative.
C23_LebCanonicalNonNegative ==
    (leb.end /\ leb.in # << >> /\ ~SignedValue(leb.in).negative)
    => leb.bytes = SLebEncode(leb.in)

(***************************************************************************)
(* Reading a module back: unsigned base-128 numbers and the sections.      *)
(***************************************************************************)
\* The unsigned base-128 number at position p: [value, next].
RECURSIVE ULebAt(_, _)
ULebAt(bytes, p) ==
    IF bytes[p] < 128 THEN [value |-> bytes[p], next |-> p + 1]
    ELSE LET r == ULebAt(bytes, p + 1)
         IN  [value |-> (bytes[p] % 128) + 128 * r.value, next |-> r.next]

\* The sections from position p on, as a sequence of [id, content].
RECURSIVE SectionsFrom(_, _)
SectionsFrom(bytes, p) ==
    IF p > Len(bytes) THEN << >>
    ELSE LET size == ULebAt(bytes, p + 1)
         IN  << [id |-> bytes[p],
                 content |-> SubSeq(bytes, size.next, size.next + size.value - 1)] >>
             \o SectionsFrom(bytes, size.next + size.value)

\* The sections of the buffer Graph::generate filled: they follow the
\* resource header and the eight bytes of magic and version.
ModuleSections(blob) == SectionsFrom(blob, Len(ScriptHeader) + 9)

\* The content of the one section with the id.
ModuleSection(blob, id) ==
    LET secs == ModuleSections(blob)
        hits == { i \in DOMAIN secs : secs[i].id = id }
    IN  secs[CHOOSE i \in hits : TRUE].content

OneUpdateGraph ==
    /\ Len(m_nodes) = 1
    /\ m_nodes[1].type = "UPDATE"
    /\ m_links = << >>
    /\ m_variables = << >>

\* C15: the module compiled from a graph of one UPDATE node and no links
\* has each section once; its export section lists the function "update"
\* (function 3, after the three imports) and the global "self" and nothing
\* else, and its code section is one body of two bytes: no locals, END.
C15_UpdateOnlyModule ==
    (JustCompiled /\ OneUpdateGraph)
    => /\ [i \in DOMAIN ModuleSections(module) |-> ModuleSections(module)[i].id]
            = << 1, 2, 3, 6, 7, 10 >>
       /\ ModuleSection(module, 7)
            = << 2, 6, 117, 112, 100, 97, 116, 101, 0, 3, 4, 115, 101, 108, 102, 3, 0 >>
       /\ ModuleSection(module, 3) = << 1, 3 >>
       /\ ModuleSection(module, 10) = << 1, 2, 0, 11 >>

C15_Witness == JustCompiled /\ OneUpdateGraph /\ Len(module) > Len(ScriptHeader) + 8

\* C16: an entry node asked for selector 0 writes a whole function body:
\* the zero locals count, the code of the node on its flow output 0 if
\* there is one, and END as the last byte.
C16_EntryBodyComplete ==
    \A k \in DOMAIN m_nodes :
        (m_nodes[k].type \in EntryTypes /\ ~NodeCode(TheGraph, k, 0).diverged)
        => LET o == getOutputNode(TheGraph, k, 0)
               inner == IF o.node = 0 THEN << >>
                        ELSE NodeCode(TheGraph, o.node, o.idx).blob
           IN  NodeCode(TheGraph, k, 0).blob = << 0 >> \o inner \o << WasmOp.END >>

\* The n entries of an export section from position p on: [name, kind, index].
RECURSIVE ReadExports(_, _, _)
ReadExports(content, p, n) ==
    IF n = 0 THEN << >>
    ELSE LET len == ULebAt(content, p)
             kind == len.next + len.value
             index == ULebAt(content, kind + 1)
         IN  << [name |-> SubSeq(content, len.next, kind - 1), kind |-> content[kind],
                 index |-> index.value] >>
             \o ReadExports(content, index.next, n - 1)

\* The function exports of the module, in the order they are listed.
FunctionExports(blob) ==
    LET content == ModuleSection(blob, 7)
        count == ULebAt(content, 1)
    IN  SelectSeq(ReadExports(content, count.next, count.value), LAMBDA x : x.kind = 0)

\* The n function bodies of a code section from position p on.
RECURSIVE ReadBodies(_, _, _)
ReadBodies(content, p, n) ==
    IF n = 0 THEN << >>
    ELSE LET size == ULebAt(content, p)
         IN  << SubSeq(content, size.next, size.next + size.value - 1) >>
             \o ReadBodies(content, size.next + size.value, n - 1)

FunctionBodies(blob) ==
    LET content == ModuleSection(blob, 10)
        count == ULebAt(content, 1)
    IN  ReadBodies(content, count.next, count.value)

\* The entry kinds that have a node in the graph, in the order the text
\* lists them, and the name each is exported under.
EntryKindsPresent ==
    SelectSeq(<< "UPDATE", "MOUSE_MOVE", "KEY_INPUT", "START" >>,
              LAMBDA t : \E i \in DOMAIN m_nodes : m_nodes[i].type = t)

EntryExportName ==
    [UPDATE |-> NameBytes.update, MOUSE_MOVE |-> NameBytes.onMouseMove,
     KEY_INPUT |-> NameBytes.onKeyEvent, START |-> NameBytes.start]

FirstOfKind(kind) == MinOf({ i \in DOMAIN m_nodes : m_nodes[i].type = kind })

\* C17: the module of a compile exports one function for each entry kind
\* that has a node, under the kind's name, and its body is the one the
\* first node of the kind writes; there are as many function exports and
\* bodies as kinds present, and no entry node has a message.
C17_OneExportPerKind ==
    JustCompiled =>
        LET funcs == FunctionExports(module)
            bodies == FunctionBodies(module)
            kinds == EntryKindsPresent
        IN  /\ Len(funcs) = Cardinality({ m_nodes[i].type : i \in DOMAIN m_nodes }
                                        \cap EntryTypes)
            /\ Len(funcs) = Len(kinds)
            /\ Len(bodies) = Len(kinds)
            /\ \A e \in DOMAIN kinds :
                  /\ funcs[e].name = EntryExportName[kinds[e]]
                  /\ funcs[e].index = Len(Imports) + e - 1
                  /\ bodies[e] = NodeCode(TheGraph, FirstOfKind(kinds[e]), 0).blob
            /\ \A i \in DOMAIN m_nodes :
                  m_nodes[i].type \in EntryTypes => m_nodes[i].m_error = ""

\* A compile of a graph with two UPDATE nodes whose bodies differ: the
\* module holds the body of the first.
C17_Witness ==
    /\ JustCompiled
    /\ Len(EntryKindsPresent) = 1
    /\ \E i \in DOMAIN m_nodes, j \in DOMAIN m_nodes :
          /\ i < j
          /\ m_nodes[i].type = "UPDATE"
          /\ m_nodes[j].type = "UPDATE"
          /\ NodeCode(TheGraph, i, 0).blob # NodeCode(TheGraph, j, 0).blob
          /\ FunctionBodies(module) = << NodeCode(TheGraph, i, 0).blob >>

\* The n entries of a global section from position p on: the value type and
\* the mutability; the initialiser is one constant and END.
RECURSIVE ReadGlobals(_, _, _)
ReadGlobals(content, p, n) ==
    IF n = 0 THEN << >>
    ELSE LET init == IF content[p + 2] = WasmOp.F32_CONST THEN 5 ELSE 2
         IN  << [type |-> content[p], mutable |-> content[p + 1]] >>
             \o ReadGlobals(content, p + 2 + init + 1, n - 1)

ModuleGlobals(blob) ==
    LET content == ModuleSection(blob, 6)
        count == ULebAt(content, 1)
    IN  ReadGlobals(content, count.next, count.value)

\* The global exports of the module, in the order they are listed.
GlobalExports(blob) ==
    LET content == ModuleSection(blob, 7)
        count == ULebAt(content, 1)
    IN  SelectSeq(ReadExports(content, count.next, count.value), LAMBDA x : x.kind = 3)

\* The value type a variable of each script type is declared with.
DeclaredType == [U32 |-> 127, I32 |-> 127, FLOAT |-> 125, ENTITY |-> 127]

\* C18: the module of a compile declares one global for "self" and one for
\* each variable: variable k (from 0) is global k + 1, of the variable's
\* type and exported under its name, so that the index m_var + 1 a variable
\* node writes names the global of variable m_var.
C18_GlobalPerVariable ==
    JustCompiled =>
        LET globals == ModuleGlobals(module)
            names == GlobalExports(module)
        IN  /\ Len(globals) = 1 + Len(m_variables)
            /\ Len(names) = 1 + Len(m_variables)
            /\ names[1] = [name |-> NameBytes.self, kind |-> 3, index |-> 0]
            /\ globals[1].type = 127
            /\ \A v \in DOMAIN m_variables :
                  /\ globals[v + 1].type = DeclaredType[m_variables[v].type]
                  /\ names[v + 1] = [name |-> m_variables[v].name, kind |-> 3, index |-> v]

\* The same, for a variable list of i32 and float variables only.
C18_GlobalPerNumericVariable ==
    (\A v \in DOMAIN m_variables : m_variables[v].type \in {"I32", "FLOAT"})
    => C18_GlobalPerVariable

\* The length of the LEB128 number at position p.
LebLength(code, p) == ULebAt(code, p).next - p

\* What the instructions of code from position p on do to the depth of the
\* operand stack: a constant or a read pushes, a binary operator pops two
\* and pushes one, a call pops its arguments and pushes its result.
RECURSIVE StackEffect(_, _)
StackEffect(code, p) ==
    IF p > Len(code) THEN 0
    ELSE LET op == code[p]
         IN  CASE op = WasmOp.F32_CONST -> 1 + StackEffect(code, p + 5)
               [] op \in {WasmOp.I32_CONST, WasmOp.I64_CONST, WasmOp.GLOBAL_GET,
                          WasmOp.LOCAL_GET} ->
                     1 + StackEffect(code, p + 1 + LebLength(code, p + 1))
               [] op = WasmOp.GLOBAL_SET ->
                     StackEffect(code, p + 1 + LebLength(code, p + 1)) - 1
               [] op = WasmOp.CALL ->
                     LET callee == ULebAt(code, p + 1).value
                         f == Imports[callee + 1]
                     IN  StackEffect(code, p + 1 + LebLength(code, p + 1))
                         - Len(f.args) + (IF f.ret_type = WASMType.VOID THEN 0 ELSE 1)
               [] op = WasmOp["IF"] -> StackEffect(code, p + 2) - 1
               [] op \in {WasmOp.I32_EQ, WasmOp.I32_NEQ, WasmOp.I32_LT_S, WasmOp.I32_GT_S,
                          WasmOp.I32_LE_S, WasmOp.I32_GE_S, WasmOp.F32_EQ, WasmOp.F32_NEQ,
                          WasmOp.F32_LT, WasmOp.F32_GT, WasmOp.F32_LE, WasmOp.F32_GE,
                          WasmOp.I32_ADD, WasmOp.I32_MUL, WasmOp.F32_ADD, WasmOp.F32_MUL} ->
                     StackEffect(code, p + 1) - 1
               [] OTHER -> StackEffect(code, p + 1)

ValueNodeTypes ==
    {"ADD", "MUL"} \cup CompareTypes \cup {"CONST", "GET_VARIABLE", "SELF", "GET_PROPERTY"}

\* C19: the code one call of generate on a value node writes leaves the
\* operand stack exactly one value deeper, and the call changes nothing
\* else: no node has a message it did not have.
C19_ValueNodePushesOne ==
    \A k \in DOMAIN m_nodes :
        (m_nodes[k].type \in ValueNodeTypes /\ ~NodeCode(TheGraph, k, 0).diverged)
        => /\ StackEffect(NodeCode(TheGraph, k, 0).blob, 1) = 1
           /\ NodeCode(TheGraph, k, 0).nodes = clearErrors(m_nodes)

\* The same, for the calls that raise no message.
C19_SilentValueNodePushesOne ==
    \A k \in DOMAIN m_nodes :
        (/\ m_nodes[k].type \in ValueNodeTypes
         /\ ~NodeCode(TheGraph, k, 0).diverged
         /\ NodeCode(TheGraph, k, 0).nodes = clearErrors(m_nodes))
        => StackEffect(NodeCode(TheGraph, k, 0).blob, 1) = 1

\* The first output pin of node k, from pin i on, whose link leads to no
\* node.
RECURSIVE FirstGap(_, _, _)
FirstGap(g, k, i) ==
    IF getOutputNode(g, k, i).node = 0 THEN i ELSE FirstGap(g, k, i + 1)

\* C20: what a Sequence node writes is what the nodes on its output pins
\* 0, 1, ... write for selector 0, each once and in pin order, up to the
\* first pin whose link is missing or leads to no node; nothing is written
\* for a pin above it.
C20_SequenceStopsAtFirstGap ==
    \A k \in DOMAIN m_nodes :
        (m_nodes[k].type = "SEQUENCE" /\ ~NodeCode(TheGraph, k, 0).diverged)
        => NodeCode(TheGraph, k, 0).blob
           = Flatten([p \in 1 .. FirstGap(TheGraph, k, 0) |->
                 NodeCode(TheGraph, getOutputNode(TheGraph, k, p - 1).node, 0).blob])

\* A compile of a graph whose Sequence node has a statement on pin 0, none
\* on pin 1 and another on pin 2: the body holds the first only.
C20_Witness ==
    /\ JustCompiled
    /\ \E k \in DOMAIN m_nodes :
          /\ m_nodes[k].type = "SEQUENCE"
          /\ FirstGap(TheGraph, k, 0) = 1
          /\ getOutputNode(TheGraph, k, 2).node # 0
          /\ NodeCode(TheGraph, getOutputNode(TheGraph, k, 2).node, 0).blob # << >>
          /\ NodeCode(TheGraph, getOutputNode(TheGraph, k, 0).node, 0).blob # << >>
          /\ \E e \in DOMAIN out :
                out[e].body = << 0 >>
                              \o NodeCode(TheGraph, getOutputNode(TheGraph, k, 0).node, 0).blob
                              \o << WasmOp.END >>

\* The output pin a Switch node's checkbox selects: 0 ("On") or 1 ("Off").
ChosenPin(k) == IF m_nodes[k].data # 0 THEN 0 ELSE 1

\* C21: what a Switch node writes is what the node on the output pin its
\* flag selects writes (pin 0 when on, pin 1 when off) and nothing more: no
\* instruction of its own, nothing of the other pin's node, and nothing at
\* all when the selected pin has no link.
C21_SwitchEmitsChosenBranch ==
    \A k \in DOMAIN m_nodes :
        (m_nodes[k].type = "SWITCH" /\ ~NodeCode(TheGraph, k, 0).diverged)
        => LET n == getOutputNode(TheGraph, k, ChosenPin(k))
           IN  NodeCode(TheGraph, k, 0).blob
               = IF n.node = 0 THEN << >> ELSE NodeCode(TheGraph, n.node, n.idx).blob

\* A compile of a graph whose Switch node is off, with a statement on the
\* "On" pin and none on the "Off" pin: the body is empty.
C21_Witness ==
    /\ JustCompiled
    /\ \E k \in DOMAIN m_nodes :
          /\ m_nodes[k].type = "SWITCH"
          /\ m_nodes[k].data = 0
          /\ getOutputNode(TheGraph, k, 1).node = 0
          /\ getOutputNode(TheGraph, k, 0).node # 0
          /\ NodeCode(TheGraph, getOutputNode(TheGraph, k, 0).node, 0).blob # << >>
          /\ getOutputNode(TheGraph, 1, 0).node = k
          /\ \E e \in DOMAIN out : out[e].body = << 0, WasmOp.END >>

\* The n function types of a type section from position p on: the
\* parameter types and the result types of each.
RECURSIVE ReadTypes(_, _, _)
ReadTypes(content, p, n) ==
    IF n = 0 THEN << >>
    ELSE LET nargs == content[p + 1]
             nres == content[p + 2 + nargs]
         IN  << [tag |-> content[p],
                 args |-> SubSeq(content, p + 2, p + 1 + nargs),
                 results |-> SubSeq(content, p + 3 + nargs, p + 2 + nargs + nres)] >>
             \o ReadTypes(content, p + 3 + nargs + nres, n - 1)

ModuleTypes(blob) ==
    LET content == ModuleSection(blob, 1)
        count == ULebAt(content, 1)
    IN  ReadTypes(content, count.next, count.value)

\* The n entries of an import section from position p on.
RECURSIVE ReadImports(_, _, _)
ReadImports(content, p, n) ==
    IF n = 0 THEN << >>
    ELSE LET mlen == ULebAt(content, p)
             flen == ULebAt(content, mlen.next + mlen.value)
             kind == flen.next + flen.value
             index == ULebAt(content, kind + 1)
         IN  << [module_name |-> SubSeq(content, mlen.next, mlen.next + mlen.value - 1),
                 field_name |-> SubSeq(content, flen.next, kind - 1),
                 kind |-> content[kind], index |-> index.value] >>
             \o ReadImports(content, index.next, n - 1)

ModuleImports(blob) ==
    LET content == ModuleSection(blob, 2)
        count == ULebAt(content, 1)
    IN  ReadImports(content, count.next, count.value)

\* The n numbers of a vector of LEB128 numbers from position p on.
RECURSIVE ReadIndices(_, _, _)
ReadIndices(content, p, n) ==
    IF n = 0 THEN << >>
    ELSE LET index == ULebAt(content, p)
         IN  << index.value >> \o ReadIndices(content, index.next, n - 1)

\* The signature index of each function the module defines.
ModuleFunctions(blob) ==
    LET content == ModuleSection(blob, 3)
        count == ULebAt(content, 1)
    IN  ReadIndices(content, count.next, count.value)

\* The signatures of the host functions and of the entry points, by name.
HostSignature ==
    [n \in {NameBytes.setYaw, NameBytes.setPropertyFloat, NameBytes.getPropertyFloat} |->
        CASE n = NameBytes.setYaw -> [tag |-> 96, args |-> << 127, 125 >>, results |-> << >>]
          [] n = NameBytes.setPropertyFloat ->
                [tag |-> 96, args |-> << 127, 126, 125 >>, results |-> << >>]
          [] OTHER -> [tag |-> 96, args |-> << 127, 126 >>, results |-> << 125 >>]]

EntrySignature ==
    [n \in {NameBytes.update, NameBytes.onMouseMove, NameBytes.onKeyEvent, NameBytes.start} |->
        CASE n = NameBytes.update -> [tag |-> 96, args |-> << 125 >>, results |-> << >>]
          [] n = NameBytes.onMouseMove ->
                [tag |-> 96, args |-> << 125, 125 >>, results |-> << >>]
          [] n = NameBytes.onKeyEvent -> [tag |-> 96, args |-> << 127 >>, results |-> << >>]
          [] OTHER -> [tag |-> 96, args |-> << >>, results |-> << >>]]

\* C22: in the module of a compile the indices follow the positions: the
\* type section lists the signatures of the imports and then of the exports;
\* import i names signature i; function j has signature imports + j and is
\* exported as function imports + j; global g is exported as global g; and
\* the code section holds the bodies of the exports, one each, in order.
C22_IndicesPositional ==
    JustCompiled =>
        LET types == ModuleTypes(module)
            imports == ModuleImports(module)
            functions == ModuleFunctions(module)
            funcs == FunctionExports(module)
            globals == GlobalExports(module)
            bodies == FunctionBodies(module)
        IN  /\ Len(types) = Len(imports) + Len(funcs)
            /\ Len(functions) = Len(funcs)
            /\ Len(bodies) = Len(funcs)
            /\ Len(globals) = Len(ModuleGlobals(module))
            /\ \A i \in DOMAIN imports :
                  /\ imports[i].kind = 0
                  /\ imports[i].index = i - 1
                  /\ types[i] = HostSignature[imports[i].field_name]
            /\ \A j \in DOMAIN funcs :
                  /\ functions[j] = Len(imports) + j - 1
                  /\ funcs[j].index = Len(imports) + j - 1
                  /\ types[functions[j] + 1] = EntrySignature[funcs[j].name]
                  /\ NameBytes[out[j].name] = funcs[j].name
                  /\ bodies[j] = out[j].body
            /\ \A g \in DOMAIN globals : globals[g].index = g - 1

\* A compile of a graph with three kinds of entry node: the functions have
\* the signatures 3, 4 and 5.
C22_Witness ==
    /\ JustCompiled
    /\ ModuleFunctions(module) = << 3, 4, 5 >>
    /\ Len(ModuleImports(module)) = 3
    /\ Len(FunctionBodies(module)) = 3

\* Where the variable at index v (from 0) is after the step: one place
\* down when a row before it was deleted, nowhere (-1) when its own row was.
IndexAfterStep(v) ==
    IF last_op'.op = "removeVariable"
    THEN IF v < last_op'.index THEN v
         ELSE IF v = last_op'.index THEN -1
         ELSE v - 1
    ELSE v

\* C25: every step of the editor leaves each variable node with an index
\* below the number of variables, and with the index of the variable it had
\* before the step, wherever the step has put that variable.
C25_VariableIndexValid ==
    [][ \A k \in DOMAIN m_nodes' :
            m_nodes'[k].type \in VariableNodeTypes
            => /\ m_nodes'[k].data < Len(m_variables')
               /\ k \in DOMAIN m_nodes
                  => m_nodes'[k].data = IndexAfterStep(m_nodes[k].data)
      ]_vars

\* The same, for the steps that delete no variable, from a state where the
\* indices are below the number of variables.
C25_ValidWithoutRemoval ==
    [][ (/\ last_op'.op # "removeVariable"
         /\ \A k \in DOMAIN m_nodes :
               m_nodes[k].type \in VariableNodeTypes
               => m_nodes[k].data < Len(m_variables))
        => \A k \in DOMAIN m_nodes' :
              m_nodes'[k].type \in VariableNodeTypes
              => /\ m_nodes'[k].data < Len(m_variables')
                 /\ k \in DOMAIN m_nodes
                    => m_nodes'[k].data = IndexAfterStep(m_nodes[k].data)
      ]_vars

\* The slots the local-read instructions of code name, from position p on,
\* instruction by instruction.
RECURSIVE LocalReads(_, _)
LocalReads(code, p) ==
    IF p > Len(code) THEN {}
    ELSE LET op == code[p]
         IN  CASE op = WasmOp.LOCAL_GET ->
                     { ULebAt(code, p + 1).value }
                     \cup LocalReads(code, p + 1 + LebLength(code, p + 1))
               [] op = WasmOp.F32_CONST -> LocalReads(code, p + 5)
               [] op \in {WasmOp.I32_CONST, WasmOp.I64_CONST, WasmOp.GLOBAL_GET,
                          WasmOp.GLOBAL_SET, WasmOp.CALL} ->
                     LocalReads(code, p + 1 + LebLength(code, p + 1))
               [] op = WasmOp["IF"] -> LocalReads(code, p + 2)
               [] OTHER -> LocalReads(code, p + 1)

\* C26: in the module of a compile, every local read of a function body
\* (after its locals count) names a slot below the number of parameters of
\* the export's signature.
C26_LocalReadsInRange ==
    JustCompiled =>
        LET funcs == FunctionExports(module)
            bodies == FunctionBodies(module)
        IN  \A j \in DOMAIN funcs :
               \A slot \in LocalReads(bodies[j], 2) :
                  slot < Len(EntrySignature[funcs[j].name].args)

\* The same, for the graphs with one entry node.
C26_OneEntryLocalReadsInRange ==
    Cardinality({ k \in DOMAIN m_nodes : m_nodes[k].type \in EntryTypes }) = 1
    => C26_LocalReadsInRange

\* The value types on the operand stack after the instructions of code from
\* position p on have run on the stack `types` (top last).  A global read
\* pushes the type the module declares for the global, a constant its own
\* type, a comparison i32, an arithmetic operator the type of its family, a
\* call the result of the host function.
Pop(types, n) == SubSeq(types, 1, Len(types) - n)

RECURSIVE TypeStack(_, _, _, _)
TypeStack(g, code, p, types) ==
    IF p > Len(code) THEN types
    ELSE LET op == code[p]
             after == p + 1 + LebLength(code, p + 1)
         IN  CASE op = WasmOp.F32_CONST -> TypeStack(g, code, p + 5, Append(types, 125))
               [] op = WasmOp.I32_CONST -> TypeStack(g, code, after, Append(types, 127))
               [] op = WasmOp.I64_CONST -> TypeStack(g, code, after, Append(types, 126))
               [] op = WasmOp.GLOBAL_GET ->
                     LET index == ULebAt(code, p + 1).value
                     IN  TypeStack(g, code, after,
                                   Append(types, IF index + 1 \in DOMAIN Globals(g)
                                                 THEN Globals(g)[index + 1].type ELSE 0))
               [] op = WasmOp.CALL ->
                     LET f == Imports[ULebAt(code, p + 1).value + 1]
                     IN  TypeStack(g, code, after,
                                   Pop(types, Len(f.args))
                                   \o (IF f.ret_type = WASMType.VOID THEN << >>
                                       ELSE << f.ret_type >>))
               [] op \in {WasmOp.I32_EQ, WasmOp.I32_NEQ, WasmOp.I32_LT_S, WasmOp.I32_GT_S,
                          WasmOp.I32_LE_S, WasmOp.I32_GE_S, WasmOp.F32_EQ, WasmOp.F32_NEQ,
                          WasmOp.F32_LT, WasmOp.F32_GT, WasmOp.F32_LE, WasmOp.F32_GE,
                          WasmOp.I32_ADD, WasmOp.I32_MUL} ->
                     TypeStack(g, code, p + 1, Append(Pop(types, 2), 127))
               [] op \in {WasmOp.F32_ADD, WasmOp.F32_MUL} ->
                     TypeStack(g, code, p + 1, Append(Pop(types, 2), 125))
               [] OTHER -> TypeStack(g, code, p + 1, types)

\* The value nodes whose code, for output pin 0, is complete: the call
\* raised no message, came back, and reads no function parameter; and whose
\* type query gives a type.
TypedValueNode(k) ==
    /\ m_nodes[k].type \in ValueNodeTypes
    /\ ~NodeCode(TheGraph, k, 0).diverged
    /\ NodeCode(TheGraph, k, 0).nodes = clearErrors(m_nodes)
    /\ LocalReads(NodeCode(TheGraph, k, 0).blob, 1) = {}
    /\ getOutputType(TheGraph, k, 0, {}) \in ValueTypes

\* C27: the type getOutputType reports for a value node is the type of the
\* value the node's code leaves on top of the stack.
C27_ReportedTypeIsPushedType ==
    \A k \in DOMAIN m_nodes :
        TypedValueNode(k)
        => TypeStack(TheGraph, NodeCode(TheGraph, k, 0).blob, 1, << >>)
           = << DeclaredType[getOutputType(TheGraph, k, 0, {})] >>

\* The same, for the value nodes that are not comparisons.
C27_ReportedTypeExceptComparisons ==
    \A k \in DOMAIN m_nodes :
        (TypedValueNode(k) /\ m_nodes[k].type \notin CompareTypes)
        => TypeStack(TheGraph, NodeCode(TheGraph, k, 0).blob, 1, << >>)
           = << DeclaredType[getOutputType(TheGraph, k, 0, {})] >>

\* Every entry of the export section of the module, in the order listed.
ModuleExports(blob) ==
    LET content == ModuleSection(blob, 7)
        count == ULebAt(content, 1)
    IN  ReadExports(content, count.next, count.value)

DistinctNames(exports) ==
    \A i, j \in DOMAIN exports : exports[i].name = exports[j].name => i = j

\* C28: the names in the export section of a generated module are pairwise
\* distinct.
C28_ExportNamesDistinct == JustCompiled => DistinctNames(ModuleExports(module))

\* The same, for a variable list whose names are pairwise distinct.
C28_DistinctWhenVariablesDistinct ==
    (JustCompiled /\ DistinctNames(m_variables)) => DistinctNames(ModuleExports(module))

\* C29: Graph::generate changes nothing in the graph but the nodes'
\* messages: the nodes, in their order, with their ids, positions and
\* payloads, the links, the variables and the id counter are after the call
\* what they were before it.
C29_GenerateKeepsGraph ==
    [][last_op'.op = "generate"
       => /\ PersistedNodes(m_nodes') = PersistedNodes(m_nodes)
          /\ m_links' = m_links
          /\ m_variables' = m_variables
          /\ m_node_counter' = m_node_counter]_vars

\* A compile that came back and left a message on a node.
C29_Witness == JustCompiled /\ \E k \in DOMAIN m_nodes : m_nodes[k].m_error # ""

(***************************************************************************)
(* The claims about loading, checked under LoadSpec.                       *)
(***************************************************************************)
\* C11: a load whose magic word or version word is wrong reports failure and
\* leaves the node list, the link list, the variable list and the counter
\* as they were when Graph::deserialize was called; and so does
\* Graph::deserialize given any such stream on the graph as it is now.
C11_LoadFailsClosed ==
    [][ /\ (/\ last_op'.op = "deserialize"
            /\ (last_op'.magic # MAGIC \/ last_op'.version # 0))
           => /\ ~last_op'.ok
              /\ MkGraph(m_nodes', m_links', m_variables', m_node_counter')
                   = clear(TheGraph)
        /\ \A magic \in {MAGIC, 0}, version \in {0, 1} :
              (magic # MAGIC \/ version # 0)
              => deserialize(TheGraph, [saved EXCEPT ![1] = magic, ![2] = version])
                   = [ok |-> FALSE, g |-> TheGraph]
      ]_vars

C11_Witness ==
    /\ last_op.op = "deserialize"
    /\ last_op.magic = MAGIC
    /\ last_op.version # 0
    /\ ~last_op.ok
    /\ saved[3] # m_node_counter

(***************************************************************************)
(* The claims about the asset compiler, checked under CompileSpec.         *)
(***************************************************************************)
\* What Graph::deserialize makes of a source file on a new graph.
SourceGraph(content) == deserialize(EmptyGraph, content)

\* C24: a step of AssetPlugin::compile either leaves the compiled resource
\* as it was or writes the resource header followed by the source's bytes
\* (extension wasm) or by the module generated from the graph read from the
\* source (any other); when the source cannot be read or the graph is not
\* read from it, the call returns false and leaves the resource as it was;
\* and a call that returns true has written the resource.
C24_CompiledResource ==
    [][ last_op'.op = "compile"
        => LET src == last_op'.content
               expected == IF last_op'.ext = "wasm" THEN ScriptHeader \o src
                           ELSE generateGraph(SourceGraph(src).g).blob
               failed == \/ ~last_op'.readable
                         \/ (last_op'.ext # "wasm" /\ ~SourceGraph(src).ok)
           IN  /\ module' = module \/ module' = expected
               /\ failed => (~last_op'.ok /\ last_op'.returned /\ module' = module)
               /\ last_op'.ok
                  => /\ module' = expected
                     /\ SubSeq(module', 1, Len(ScriptHeader)) = ScriptHeader
               /\ (last_op'.ok /\ last_op'.ext # "wasm")
                  => SubSeq(module', Len(ScriptHeader) + 1, Len(ScriptHeader) + 4)
                       = U32Bytes(WasmMagic)
      ]_vars

\* A compile of a graph file whose version word is wrong, after a compile
\* that wrote the resource: it has returned false and the resource is the
\* one written before.
C24_Witness ==
    /\ last_op.op = "compile"
    /\ last_op.ext = "lvs"
    /\ last_op.readable
    /\ last_op.content[1] = MAGIC
    /\ ~SourceGraph(last_op.content).ok
    /\ ~last_op.ok
    /\ module = ScriptHeader \o saved

====
